---------------------------- MODULE Spec2Model ----------------------------
(***************************************************************************)
(* A model of aicli's LLM protocol client (internal/client/client.go) and  *)
(* of the agent orchestration loop that drives it (internal/chat/chat.go). *)
(*                                                                         *)
(* Text is a sequence of one-character strings, so that the scanners of    *)
(* the client (extractJSON, the tool-call parser) are modelled character   *)
(* by character.  Indexes handed to and returned by the operators that     *)
(* model Go functions are Go's 0-based byte offsets; s[i+1] is Go's s[i].  *)
(***************************************************************************)
EXTENDS Integers, Sequences, FiniteSets, TLC

VARIABLES
    exS,        \* extractJSON: the argument s
    exStart,    \* extractJSON: the argument start
    exResult,   \* extractJSON: the returned pair (str, end)
    exPc,       \* "call" before the call, "done" after it
    ptSegs,     \* ParseToolCallsFromText: what the argument text is made of
    cleanedText,\* ParseToolCallsFromText: cleanedText
    toolCalls,  \* ParseToolCallsFromText: toolCalls
    callIndex,  \* ParseToolCallsFromText: callIndex
    ptName,     \* ParseToolCallsFromText: the position of the range over knownToolNames
    ptPc,       \* "tagged", "raw": the loop that runs; "return"; "done"
    stLines,    \* handleStreamResponse: the lines of the response body
    stFail,     \* handleStreamResponse: whether reading the body fails after them
    stPos,      \* handleStreamResponse: the lines scanned so far
    contentBuilder, \* handleStreamResponse: contentBuilder
    toolCallsMap,   \* handleStreamResponse: toolCallsMap
    finishReason,   \* handleStreamResponse: result.FinishReason
    scanErr,    \* handleStreamResponse: whether scanner.Err() is an error
    stResult,   \* handleStreamResponse: the returned ChatResult and error
    stPc,       \* "scan": the loop runs; "return"; "done"
    history,    \* Client.history
    systemPrompt,   \* cfg.SystemPrompt
    userInterrupts, \* cfg.UserInterrupts
    requestNum, \* Client.requestNum
    reqMessages,\* Messages of the body of the last request
    smPc,       \* "prompt": the input loop waits; "chat", "continue", "context":
                \* a request of Chat, ContinueWithToolResults, addFileContext's
                \* Chat is in flight; "tools": the range over result.ToolCalls
    result,     \* sendMessage: result
    tcPos,      \* sendMessage: the position of the range over result.ToolCalls
    preHistory, \* the history when Chat was last called
    userText,   \* the userMessage of the last Chat call
    callErr,    \* "Chat", "Continue": the call of the client that has just
                \* returned an error; "none" after a call that returned a result
    retry,      \* whether the last Chat call repeats a failed one
    \* chat.Chat and config.Config, at the permission gate
    autoExec,         \* Chat.autoExec
    rl,               \* whether Chat.rl is not nil
    toolPermissions,  \* Config.ToolPermissions, a map with the domain of its keys
    gateLog,          \* the executeTool call that has just returned: what it was
                      \* given and did
    \* executeTool's run_command case and the todo file
    todoItems,  \* TodoFile.items
    rcCommand,  \* a.Command
    rcRun,      \* result of c.exec.Run(a.Command)
    rcReturn,   \* the string executeTool returns
    rcBefore,   \* TodoFile.items when executeTool was called
    rcPc,       \* "call": before c.exec.Run; "ran": after it; "done": returned
    rcRuns,     \* how many commands have run
    rcCancelled,\* whether the user cancelled the command that ran last
    rcLog,      \* the run_command calls since the last failed one, that one first:
                \* the command, whether it took the success path, the pending
                \* list it left
    tfFile,     \* TODOS.md as the last Save left it: whether it exists, its text
    klActive,   \* Listener.active
    klOldState, \* whether Listener.oldState is set
    klStops,    \* the channels Listener.stopCh has held, the current one last
    klDones,    \* the channels Listener.doneCh has held (0 is nil)
    klClosed,   \* the channels that are closed
    klPanic,    \* whether close was called on a closed channel
    klLoops,    \* the readLoop goroutines: where each stands, and how many
                \* channels stopCh had held when it was started
    klCallers   \* the goroutines that call Start and Stop: where each stands,
                \* and the channel a waiting Start waits for

exVars == <<exS, exStart, exResult, exPc>>

ptVars == <<ptSegs, cleanedText, toolCalls, callIndex, ptName, ptPc>>

stVars == <<stLines, stFail, stPos, contentBuilder, toolCallsMap, finishReason,
            scanErr, stResult, stPc>>

chVars == <<history, systemPrompt, userInterrupts, requestNum, reqMessages, smPc,
            result, tcPos, preHistory, userText, callErr, retry>>

gtVars == <<autoExec, rl, toolPermissions, gateLog>>

rcVars == <<todoItems, rcCommand, rcRun, rcReturn, rcBefore, rcPc, rcRuns, rcCancelled,
            rcLog>>

tfVars == <<tfFile>>

klVars == <<klActive, klOldState, klStops, klDones, klClosed, klPanic, klLoops, klCallers>>

tlVars == <<gtVars, rcVars, tfVars, klVars>>

vars == <<exVars, ptVars, stVars, chVars, tlVars>>

-----------------------------------------------------------------------------
(* Bounds of the model *)

\* longest argument string handed to extractJSON
MaxStrLen == 6

\* largest start index handed to extractJSON, besides the out-of-range len(s)
MaxStart == 2

\* longest content, in units, of the string value of a generated tool call
MaxContentLen == 1

\* most lines in a streamed response body
MaxLines == 3

\* most requests sent in a conversation
MaxRequests == 3

\* most messages in the history of a client driven through its methods
MaxHistory == 2

\* most lines a command writes to stderr
MaxErrLines == 2

\* most commands the model runs after one another
MaxRuns == 3

\* most items of the todo file
MaxTodos == 3

\* most readLoop goroutines a Listener starts
MaxStarts == 2

-----------------------------------------------------------------------------
(* Strings *)

\* the characters the extractor distinguishes, and one it does not
ExtractAlphabet == {"{", "}", "\"", "\\", "a"}

\* all sequences over S of length at most n
SeqsUpTo(S, n) == UNION {[1..k -> S] : k \in 0..n}

\* the last element of a non-empty sequence
Last(seq) == seq[Len(seq)]

\* Go's s[lo:hi]
Slice(s, lo, hi) == SubSeq(s, lo + 1, hi)

-----------------------------------------------------------------------------
(* extractJSON *)

\* the not-found signal: return "", -1
NotFound == [str |-> <<>>, end |-> -1]

\* the locals of extractJSON before the loop; ret is what it has returned
ExtractLocals == [depth |-> 0, inString |-> FALSE, escaped |-> FALSE, ret |-> NotFound]

\* the loop body with the escape flag never set: a backslash is an ordinary
\* character
ExtractBodyNoEscape(st, s, start, i) ==
    IF st.ret.end # -1 THEN st
    ELSE IF s[i + 1] = "\"" THEN [st EXCEPT !.inString = ~st.inString]
    ELSE IF st.inString THEN st
    ELSE IF s[i + 1] = "{" THEN [st EXCEPT !.depth = st.depth + 1]
    ELSE IF s[i + 1] = "}"
        THEN IF st.depth - 1 = 0
             THEN [st EXCEPT !.depth = 0,
                             !.ret = [str |-> Slice(s, start, i + 1), end |-> i + 1]]
             ELSE [st EXCEPT !.depth = st.depth - 1]
    ELSE st

\* the body of the for loop at index i (c is s[i]); once the function has
\* returned, nothing changes
ExtractBody(st, s, start, i) ==
    IF st.ret.end # -1 THEN st
    ELSE IF st.escaped THEN [st EXCEPT !.escaped = FALSE]
    ELSE IF s[i + 1] = "\\" /\ st.inString THEN [st EXCEPT !.escaped = TRUE]
    ELSE IF s[i + 1] = "\"" THEN [st EXCEPT !.inString = ~st.inString]
    ELSE IF st.inString THEN st
    ELSE IF s[i + 1] = "{" THEN [st EXCEPT !.depth = st.depth + 1]
    ELSE IF s[i + 1] = "}"
        THEN IF st.depth - 1 = 0
             THEN [st EXCEPT !.depth = 0,
                             !.ret = [str |-> Slice(s, start, i + 1), end |-> i + 1]]
             ELSE [st EXCEPT !.depth = st.depth - 1]
    ELSE st

RECURSIVE ExtractLoop(_, _, _, _, _)
\* the for loop over the indexes lo..hi in order, from the locals st (the
\* range is halved, the first half evaluated before the second, so that the
\* evaluation nests to a logarithmic depth)
ExtractLoop(s, start, lo, hi, st) ==
    IF lo > hi THEN st
    ELSE IF lo = hi THEN ExtractBody(st, s, start, lo)
    ELSE CHOOSE r \in {ExtractLoop(s, start, ((lo + hi) \div 2) + 1, hi, mid) :
                        mid \in {ExtractLoop(s, start, lo, (lo + hi) \div 2, st)}} : TRUE

\* func extractJSON(s string, start int) (string, int)
extractJSON(s, start) ==
    IF start >= Len(s) \/ s[start + 1] # "{" THEN NotFound
    ELSE ExtractLoop(s, start, start, Len(s) - 1, ExtractLocals).ret

-----------------------------------------------------------------------------
(* strings, regexp, fmt *)

\* the white space of the model's texts: regexp's \s, strings.TrimSpace and
\* encoding/json agree on these characters
IsSpace(c) == c \in {" ", "\n", "\t", "\r"}

\* the least element of a non-empty set of integers
Min(S) == CHOOSE m \in S : \A n \in S : m <= n

RECURSIVE ConcatRange(_, _, _)
\* seqs[lo] \o ... \o seqs[hi]
ConcatRange(seqs, lo, hi) ==
    IF lo > hi THEN <<>>
    ELSE IF lo = hi THEN seqs[lo]
    ELSE ConcatRange(seqs, lo, (lo + hi) \div 2)
         \o ConcatRange(seqs, ((lo + hi) \div 2) + 1, hi)

\* the concatenation of a sequence of sequences
Concat(seqs) == ConcatRange(seqs, 1, Len(seqs))

\* strings.HasPrefix(s[i:], sub)
HasPrefixAt(s, i, sub) ==
    i + Len(sub) <= Len(s) /\ SubSeq(s, i + 1, i + Len(sub)) = sub

\* strings.Index(s, sub): the offset of the first occurrence, or -1
Index(s, sub) ==
    LET hits == {p \in 0..(Len(s) - Len(sub)) : HasPrefixAt(s, p, sub)}
    IN IF hits = {} THEN -1 ELSE Min(hits)

\* strings.Contains(s, sub)
Contains(s, sub) == Index(s, sub) # -1

RECURSIVE Split(_)
\* strings.Split(s, "\n")
Split(s) ==
    IF Index(s, <<"\n">>) = -1 THEN <<s>>
    ELSE <<Slice(s, 0, Index(s, <<"\n">>))>> \o Split(Slice(s, Index(s, <<"\n">>) + 1, Len(s)))

RECURSIVE SkipSpace(_, _)
\* the first offset at or after i that holds no white space
SkipSpace(s, i) ==
    IF i < Len(s) /\ IsSpace(s[i + 1]) THEN SkipSpace(s, i + 1) ELSE i

RECURSIVE TrimRight(_)
TrimRight(s) ==
    IF Len(s) > 0 /\ IsSpace(s[Len(s)]) THEN TrimRight(SubSeq(s, 1, Len(s) - 1))
    ELSE s

\* strings.TrimSpace
TrimSpace(s) == TrimRight(Slice(s, SkipSpace(s, 0), Len(s)))

\* regexp `<literal>\s*`, FindStringIndex: the leftmost match, \s* greedy
FindLiteralSpaces(s, lit) ==
    LET p == Index(s, lit)
    IN IF p = -1 THEN <<>> ELSE <<p, SkipSpace(s, p + Len(lit))>>

\* regexp QuoteMeta(toolName) + `\s*\{`, FindStringIndex: the leftmost
\* occurrence of the name that white space and then '{' follow
FindNameBrace(s, name) ==
    LET hits == {p \in 0..(Len(s) - Len(name)) :
                    /\ HasPrefixAt(s, p, name)
                    /\ SkipSpace(s, p + Len(name)) < Len(s)
                    /\ s[SkipSpace(s, p + Len(name)) + 1] = "{"}
    IN IF hits = {} THEN <<>>
       ELSE <<Min(hits), SkipSpace(s, Min(hits) + Len(name)) + 1>>

DecimalDigits == <<"0", "1", "2", "3", "4", "5", "6", "7", "8", "9">>

RECURSIVE Itoa(_)
\* fmt's %d of an int
Itoa(n) ==
    IF n < 0 THEN <<"-">> \o Itoa(0 - n)
    ELSE IF n < 10 THEN <<DecimalDigits[n + 1]>>
    ELSE Itoa(n \div 10) \o <<DecimalDigits[(n % 10) + 1]>>

-----------------------------------------------------------------------------
(* encoding/json, on the texts of the model: objects and strings.  The     *)
(* texts hold no digit, bracket or true/false/null literal where a value   *)
(* starts, and any other character there is a syntax error.                *)

HexDigits ==
    {"0", "1", "2", "3", "4", "5", "6", "7", "8", "9",
     "a", "b", "c", "d", "e", "f", "A", "B", "C", "D", "E", "F"}

\* the characters that may follow a backslash, besides u
SimpleEscapes == {"\"", "\\", "/", "b", "f", "n", "r", "t"}

RECURSIVE BackslashesBefore(_, _, _)
\* the number of consecutive backslashes that end just before offset j, none
\* of them before offset from
BackslashesBefore(s, from, j) ==
    IF j > from /\ s[j] = "\\" THEN 1 + BackslashesBefore(s, from, j - 1) ELSE 0

\* in a string body that starts at offset i: the character at offset j follows
\* the backslash of an escape
IsEscaped(s, i, j) == BackslashesBefore(s, i, j) % 2 = 1

\* the escape whose backslash is at offset j is one of \" \\ \/ \b \f \n \r \t
\* or \u and four hex digits
EscapeOk(s, j) ==
    /\ j + 1 < Len(s)
    /\ \/ s[j + 2] \in SimpleEscapes
       \/ /\ s[j + 2] = "u"
          /\ j + 5 < Len(s)
          /\ \A k \in 3..6 : s[j + k] \in HexDigits

\* the offsets of the quotes that can close the string body that starts at i
ClosingQuotes(s, i) ==
    {q \in i..(Len(s) - 1) : s[q + 1] = "\"" /\ ~IsEscaped(s, i, q)}

\* the offset just past the closing quote of the string whose body starts at
\* i, or -1: an unknown escape, a raw control character, no closing quote
ScanString(s, i) ==
    IF ClosingQuotes(s, i) = {} THEN -1
    ELSE IF \A j \in i..(Min(ClosingQuotes(s, i)) - 1) :
                /\ s[j + 1] \notin {"\n", "\t", "\r"}
                /\ (s[j + 1] = "\\" /\ ~IsEscaped(s, i, j)) => EscapeOk(s, j)
        THEN Min(ClosingQuotes(s, i)) + 1
    ELSE -1

RECURSIVE ScanValue(_, _)
RECURSIVE ScanMembers(_, _)
\* the offset just past the value that starts at i, or -1 on a syntax error
ScanValue(s, i) ==
    IF i >= Len(s) THEN -1
    ELSE IF s[i + 1] = "\"" THEN ScanString(s, i + 1)
    ELSE IF s[i + 1] = "{"
        THEN LET j == SkipSpace(s, i + 1)
             IN IF j < Len(s) /\ s[j + 1] = "}" THEN j + 1
                ELSE ScanMembers(s, j)
    ELSE -1

\* the offset just past the '}' of the object whose next key starts at i
ScanMembers(s, i) ==
    IF i >= Len(s) \/ s[i + 1] # "\"" THEN -1
    ELSE LET k == ScanString(s, i + 1)
             c == SkipSpace(s, k)
             v == SkipSpace(s, c + 1)
             e == ScanValue(s, v)
             n == SkipSpace(s, e)
         IN IF k = -1 \/ c >= Len(s) THEN -1
            ELSE IF s[c + 1] # ":" THEN -1
            ELSE IF e = -1 \/ n >= Len(s) THEN -1
            ELSE IF s[n + 1] = "}" THEN n + 1
            ELSE IF s[n + 1] = "," THEN ScanMembers(s, SkipSpace(s, n + 1))
            ELSE -1

\* json.Valid: one value, white space around it
JsonValid(s) ==
    LET e == ScanValue(s, SkipSpace(s, 0))
    IN e # -1 /\ SkipSpace(s, e) = Len(s)

\* the decoded character of the escape whose backslash is at offset j; "BS"
\* and "FF" stand for backspace and form feed, and the text of a \u escape
\* for its code point
Unescape(s, j) ==
    CASE s[j + 2] = "n" -> "\n"
      [] s[j + 2] = "t" -> "\t"
      [] s[j + 2] = "r" -> "\r"
      [] s[j + 2] = "b" -> "BS"
      [] s[j + 2] = "f" -> "FF"
      [] s[j + 2] = "u" -> SubSeq(s, j + 2, j + 6)
      [] OTHER -> s[j + 2]

\* what the character at offset j of the string body that starts at i adds to
\* the decoded value
UnquoteAt(s, i, j) ==
    IF IsEscaped(s, i, j) THEN <<>>
    ELSE IF s[j + 1] = "\\" THEN <<Unescape(s, j)>>
    ELSE IF \E k \in 2..5 : j - k >= i /\ s[j - k + 1] = "\\"
                             /\ ~IsEscaped(s, i, j - k) /\ s[j - k + 2] = "u"
        THEN <<>>
    ELSE <<s[j + 1]>>

\* the string value of the valid literal whose body starts at i
Unquote(s, i) ==
    Concat([k \in 1..(ScanString(s, i) - 1 - i) |-> UnquoteAt(s, i, i + k - 1)])

RECURSIVE MemberValue(_, _, _, _)
\* the span <<start, end>> of the value of the last member named key of the
\* valid object whose next key starts at i (found: the span so far), <<>> if
\* the object has no such member
MemberValue(s, i, key, found) ==
    IF s[i + 1] # "\"" THEN found
    ELSE LET k == ScanString(s, i + 1)
             v == SkipSpace(s, SkipSpace(s, k) + 1)
             e == ScanValue(s, v)
             n == SkipSpace(s, e)
             now == IF Unquote(s, i + 1) = key THEN <<v, e>> ELSE found
         IN IF s[n + 1] = "," THEN MemberValue(s, SkipSpace(s, n + 1), key, now)
            ELSE now

\* the value span of member key of the valid object text s
Member(s, key) ==
    MemberValue(s, SkipSpace(s, SkipSpace(s, 0) + 1), key, <<>>)

\* the Go string decoded from the value at span m: none, a string, an object
StringAt(s, m) ==
    IF m = <<>> THEN [err |-> FALSE, value |-> <<>>]
    ELSE IF s[m[1] + 1] = "\"" THEN [err |-> FALSE, value |-> Unquote(s, m[1] + 1)]
    ELSE [err |-> TRUE, value |-> <<>>]

\* a Go string field decoded from member key of the object text s:
\* err when the text is invalid or the member is no string
StringField(s, key) ==
    IF ~JsonValid(s) THEN [err |-> TRUE, value |-> <<>>]
    ELSE StringAt(s, Member(s, key))

RawAt(s, m) == IF m = <<>> THEN <<>> ELSE Slice(s, m[1], m[2])

\* a json.RawMessage field: the member's text as it stands
RawField(s, key) == RawAt(s, Member(s, key))

NameKey ==
    <<"n", "a", "m", "e">>

ArgumentsKey ==
    <<"a", "r", "g", "u", "m", "e", "n", "t", "s">>

\* type TextToolCall: Name from the decoded member name, Arguments raw
TextToolCallOf(jsonStr, name) ==
    IF name.err THEN [err |-> TRUE, Name |-> <<>>, Arguments |-> <<>>]
    ELSE [err |-> FALSE, Name |-> name.value,
          Arguments |-> RawField(jsonStr, ArgumentsKey)]

\* json.Unmarshal([]byte(jsonStr), &tc) with tc a TextToolCall
UnmarshalTextToolCall(jsonStr) ==
    TextToolCallOf(jsonStr, StringField(jsonStr, NameKey))

\* json.Unmarshal([]byte(jsonStr), &args) with args a map[string]interface{}:
\* whether it returns an error (jsonStr starts with '{')
UnmarshalMapFails(jsonStr) == ~JsonValid(jsonStr)

-----------------------------------------------------------------------------
(* ParseToolCallsFromText *)

knownToolNames ==
    << <<"r", "u", "n", "_", "c", "o", "m", "m", "a", "n", "d">>,
       <<"w", "r", "i", "t", "e", "_", "f", "i", "l", "e">>,
       <<"w", "r", "i", "t", "e", "_", "d", "o", "c">>,
       <<"r", "e", "a", "d", "_", "f", "i", "l", "e">>,
       <<"w", "e", "b", "_", "s", "e", "a", "r", "c", "h">>,
       <<"f", "e", "t", "c", "h", "_", "u", "r", "l">>,
       <<"s", "c", "r", "e", "e", "n", "s", "h", "o", "t">>,
       <<"g", "i", "t", "_", "s", "t", "a", "t", "u", "s">>,
       <<"g", "i", "t", "_", "d", "i", "f", "f">>,
       <<"g", "i", "t", "_", "a", "d", "d">>,
       <<"g", "i", "t", "_", "c", "o", "m", "m", "i", "t">>,
       <<"g", "i", "t", "_", "l", "o", "g">>,
       <<"l", "i", "s", "t", "_", "f", "i", "l", "e", "s">>,
       <<"g", "e", "t", "_", "v", "e", "r", "s", "i", "o", "n">>,
       <<"s", "e", "t", "_", "v", "e", "r", "s", "i", "o", "n">> >>

\* the literal of the pattern `(?s)<tool_call>\s*`
OpenTag ==
    <<"<", "t", "o", "o", "l", "_", "c", "a", "l", "l", ">">>

closeTag ==
    <<"<", "/", "t", "o", "o", "l", "_", "c", "a", "l", "l", ">">>

TextCallId ==
    <<"t", "e", "x", "t", "_", "c", "a", "l", "l", "_">>

\* the tools.ToolCall that both passes build: ID text_call_<callIndex>
TextToolCall(index, name, arguments) ==
    [ID |-> TextCallId \o Itoa(index), Type |-> "function", Index |-> 0,
     Name |-> name, Arguments |-> arguments]

\* cleanedText[:from] + cleanedText[to:]
RemoveSpan(text, from, to) == Slice(text, 0, from) \o Slice(text, to, Len(text))

\* the locals of ParseToolCallsFromText
ParseState(text, calls, index) == [text |-> text, calls |-> calls, index |-> index]

\* the iteration goes on (continue) or ends the loop (break) with these locals
Continue(text, calls, index) == [stop |-> FALSE, st |-> ParseState(text, calls, index)]

Break(st) == [stop |-> TRUE, st |-> st]

\* lines 113-128: decode jsonStr; rest is cleanedText without the block
TaggedDecode(st, rest, tc) ==
    IF tc.err THEN Continue(rest, st.calls, st.index)
    ELSE Continue(rest,
                  Append(st.calls, TextToolCall(st.index, tc.Name, tc.Arguments)),
                  st.index + 1)

\* lines 106-111: the block from loc[0] to the end of the close tag at closeEnd
TaggedBlock(st, jsonStr, rest) ==
    IF jsonStr = <<>> THEN Continue(rest, st.calls, st.index)
    ELSE TaggedDecode(st, rest, UnmarshalTextToolCall(jsonStr))

\* lines 100-104: closeIdx is the offset of the close tag after jsonStart
TaggedClose(st, loc, closeIdx) ==
    IF closeIdx = -1 THEN Break(st)
    ELSE TaggedBlock(st,
                     extractJSON(TrimSpace(Slice(st.text, loc[2], loc[2] + closeIdx)), 0).str,
                     RemoveSpan(st.text, loc[1], loc[2] + closeIdx + Len(closeTag)))

\* lines 95-98: loc is the match of the open tag
TaggedOpen(st, loc) ==
    IF loc = <<>> THEN Break(st)
    ELSE TaggedClose(st, loc, Index(Slice(st.text, loc[2], Len(st.text)), closeTag))

\* one iteration of the first for loop
TaggedIteration(st) == TaggedOpen(st, FindLiteralSpaces(st.text, OpenTag))

\* the raw pass going round again after a match that cannot be parsed
RawObjectRetried(st, toolName, match, found) ==
    IF found.str = <<>> THEN Continue(st.text, st.calls, st.index)
    ELSE IF UnmarshalMapFails(found.str) THEN Continue(st.text, st.calls, st.index)
    ELSE Continue(RemoveSpan(st.text, match[1], found.end),
                  Append(st.calls, TextToolCall(st.index, toolName, found.str)),
                  st.index + 1)

\* lines 146-170: found is what extractJSON returns at the matched '{'
RawObject(st, toolName, match, found) ==
    IF found.str = <<>> THEN Break(st)
    ELSE IF UnmarshalMapFails(found.str) THEN Break(st)
    ELSE Continue(RemoveSpan(st.text, match[1], found.end),
                  Append(st.calls, TextToolCall(st.index, toolName, found.str)),
                  st.index + 1)

\* lines 137-143: match is the match of the tool name and '{'
RawMatch(st, toolName, match) ==
    IF match = <<>> THEN Break(st)
    ELSE RawObject(st, toolName, match, extractJSON(st.text, match[2] - 1))

\* one iteration of the inner for loop of the raw pass for toolName
RawIteration(st, toolName) == RawMatch(st, toolName, FindNameBrace(st.text, toolName))

RECURSIVE TaggedLoop(_)
RECURSIVE TaggedLoopFrom(_)
\* the first for loop, to its break
TaggedLoop(st) == TaggedLoopFrom(TaggedIteration(st))

TaggedLoopFrom(r) == IF r.stop THEN r.st ELSE TaggedLoop(r.st)

RECURSIVE RawLoop(_, _)
RECURSIVE RawLoopFrom(_, _)
\* the range over knownToolNames from position n on
RawLoop(st, n) ==
    IF n > Len(knownToolNames) THEN st
    ELSE RawLoopFrom(RawIteration(st, knownToolNames[n]), n)

RawLoopFrom(r, n) == IF r.stop THEN RawLoop(r.st, n + 1) ELSE RawLoop(r.st, n)

\* lines 174-175: trim and return
ParseResult(st) == [toolCalls |-> st.calls, text |-> TrimSpace(st.text)]

\* func ParseToolCallsFromText(text string) ([]tools.ToolCall, string)
ParseToolCallsFromText(text) ==
    ParseResult(RawLoop(TaggedLoop(ParseState(text, <<>>, 0)), 1))

-----------------------------------------------------------------------------
(* handleStreamResponse.  A line of the body is what the loop makes of it:  *)
(* "other" has no "data: " prefix, "done" is "data: [DONE]", "bad" is data  *)
(* that json.Unmarshal rejects, "chunk" is a decoded ChatResponse, of which *)
(* the loop reads Choices, Delta.Content, Delta.ToolCalls, FinishReason.    *)

Line(kind, choices) == [kind |-> kind, choices |-> choices]

Choice(content, calls, finish) ==
    [Content |-> content, ToolCalls |-> calls, FinishReason |-> finish]

\* a tools.ToolCall of a delta: ID and Function.Name may be empty
Fragment(index, id, name, arguments) ==
    [ID |-> id, Type |-> "function", Index |-> index, Name |-> name,
     Arguments |-> arguments]

CallPrefix ==
    <<"c", "a", "l", "l", "_">>

\* fmt.Sprintf("call_%d", idx)
GeneratedId(idx) == CallPrefix \o Itoa(idx)

\* the locals of handleStreamResponse; stop is the break at [DONE]
StreamLocals(content, calls, finish, stop) ==
    [content |-> content, calls |-> calls, finish |-> finish, stop |-> stop]

\* an index that is in the map, with the arguments replaced instead of
\* appended
OverwriteFragment(existing, tc) ==
    [existing EXCEPT !.Arguments = tc.Arguments,
                     !.ID = IF tc.ID # <<>> THEN tc.ID ELSE existing.ID]

\* an index that is in the map, with the ID of the fragment taken whether or
\* not it has one
AdoptFragment(existing, tc) ==
    [existing EXCEPT !.Arguments = existing.Arguments \o tc.Arguments,
                     !.ID = tc.ID]

\* lines 510-515: the index is in the map: append the arguments, keep the
\* rest, take the ID when the fragment has one
AppendFragment(existing, tc) ==
    [existing EXCEPT !.Arguments = existing.Arguments \o tc.Arguments,
                     !.ID = IF tc.ID # <<>> THEN tc.ID ELSE existing.ID]

\* lines 517-523: a new index: a copy of the fragment, with a generated ID
\* when it has none
NewFragment(tc) ==
    IF tc.ID = <<>> THEN [tc EXCEPT !.ID = GeneratedId(tc.Index)] ELSE tc

\* lines 508-524: the body of the range over choice.Delta.ToolCalls
MergeFragment(calls, tc) ==
    IF tc.Index \in DOMAIN calls
    THEN [calls EXCEPT ![tc.Index] = AppendFragment(calls[tc.Index], tc)]
    ELSE (tc.Index :> NewFragment(tc)) @@ calls

RECURSIVE MergeFragments(_, _, _)
\* the range over choice.Delta.ToolCalls from position k on
MergeFragments(calls, frs, k) ==
    IF k > Len(frs) THEN calls
    ELSE MergeFragments(MergeFragment(calls, frs[k]), frs, k + 1)

\* lines 497-528: a decoded chunk; only Choices[0] is read
StreamChunk(st, choices) ==
    IF Len(choices) = 0 THEN st
    ELSE StreamLocals(st.content \o choices[1].Content,
                      MergeFragments(st.calls, choices[1].ToolCalls, 1),
                      choices[1].FinishReason, FALSE)

\* the loop body where an undecodable chunk ends the loop
StreamLineBadFatal(st, line) ==
    CASE line.kind = "other" -> st
      [] line.kind = "done" -> [st EXCEPT !.stop = TRUE]
      [] line.kind = "bad" -> [st EXCEPT !.stop = TRUE]
      [] line.kind = "chunk" -> StreamChunk(st, line.choices)

\* the loop body where the [DONE] line is passed over
StreamLineDoneSkipped(st, line) ==
    CASE line.kind = "other" -> st
      [] line.kind = "done" -> st
      [] line.kind = "bad" -> st
      [] line.kind = "chunk" -> StreamChunk(st, line.choices)

\* lines 480-528: the body of the loop for one line
StreamLine(st, line) ==
    CASE line.kind = "other" -> st
      [] line.kind = "done" -> [st EXCEPT !.stop = TRUE]
      [] line.kind = "bad" -> st
      [] line.kind = "chunk" -> StreamChunk(st, line.choices)

RECURSIVE StreamScan(_, _, _)
\* the loop over the lines from position k on, to its break or the last line
StreamScan(st, lines, k) ==
    IF st.stop \/ k > Len(lines) THEN st
    ELSE StreamScan(StreamLine(st, lines[k]), lines, k + 1)

\* all orders of the elements of the finite set S
Orders(S) ==
    {o \in [1..Cardinality(S) -> S] : \A i, j \in 1..Cardinality(S) : o[i] = o[j] => i = j}

\* lines 531-537: the ChatResult; the range over toolCallsMap visits the keys
\* in the order o, and err is scanner.Err()
ChatResult(content, calls, finish, o, err) ==
    [Content |-> content, ToolCalls |-> [i \in 1..Len(o) |-> calls[o[i]]],
     FinishReason |-> finish, err |-> err]

\* the ChatResult with nothing in it
NoResult == [Content |-> <<>>, ToolCalls |-> <<>>, FinishReason |-> <<>>, err |-> FALSE]

\* what handleStreamResponse can return for a body: one result for each order
\* in which the range visits the map
StreamResults(lines, fail) ==
    LET st == StreamScan(StreamLocals(<<>>, <<>>, <<>>, FALSE), lines, 1)
    IN {ChatResult(st.content, st.calls, st.finish, o, fail /\ ~st.stop) :
           o \in Orders(DOMAIN st.calls)}

-----------------------------------------------------------------------------
(* Client: the conversation history and the requests *)

\* type Message
Message(role, content, calls, id) ==
    [Role |-> role, Content |-> content, ToolCalls |-> calls, ToolCallID |-> id]

\* what lang.GetErrorRules returns for the working directory
ErrorRules ==
    <<"r", "u", "l", "e", "s">>

\* func (c *Client) ClearHistory
ClearHistory(h) == <<>>

\* AddSystemPrompt without the test of an empty history
AddSystemPromptAlways(h, prompt) ==
    IF prompt # <<>>
    THEN Append(h, Message("system", prompt \o <<"\n", "\n">> \o ErrorRules, <<>>, <<>>))
    ELSE h

\* func (c *Client) AddSystemPrompt(): the history after it (workDir is set
\* by NewWithDebug)
AddSystemPrompt(h, prompt) ==
    IF prompt # <<>> /\ Len(h) = 0
    THEN Append(h, Message("system", prompt \o <<"\n", "\n">> \o ErrorRules, <<>>, <<>>))
    ELSE h

\* func (c *Client) Chat: the history when it calls sendRequest
Chat(h, prompt, userMessage) ==
    Append(AddSystemPrompt(h, prompt), Message("user", userMessage, <<>>, <<>>))

\* the tool message put in front of the tool message that ends the history
AddToolResultBefore(h, toolCallID, res) ==
    IF Len(h) > 0 /\ h[Len(h)].Role = "tool"
    THEN Append(SubSeq(h, 1, Len(h) - 1), Message("tool", res, <<>>, toolCallID))
         \o <<h[Len(h)]>>
    ELSE Append(h, Message("tool", res, <<>>, toolCallID))

\* func (c *Client) AddToolResult
AddToolResult(h, toolCallID, res) == Append(h, Message("tool", res, <<>>, toolCallID))

\* func (c *Client) AddUserInterrupt: records a user-role message
AddUserInterrupt(h, msg) == Append(h, Message("user", msg, <<>>, <<>>))

\* what the server does with a request: kind "transport" (httpClient.Do
\* fails), "status" (not 200), "decode" (a body that is no ChatResponse,
\* not streaming), "message" (a decoded ChatResponse, not streaming),
\* "stream" (a streamed body, res what handleStreamResponse returns)
Response(kind, res) == [kind |-> kind, res |-> res]

\* lines 457-467: the assistant message and the return
AppendAssistant(h, res) ==
    [history |-> Append(h, Message("assistant", res.Content, res.ToolCalls, <<>>)),
     err |-> FALSE, res |-> res]

\* every return nil, err of sendRequest
ReturnError(h) == [history |-> h, err |-> TRUE, res |-> NoResult]

\* sendRequest with the assistant message appended before the error of the
\* stream is looked at
SendRequestAppendFirst(h, resp) ==
    IF resp.kind \in {"transport", "status", "decode"} THEN ReturnError(h)
    ELSE IF resp.res.err
         THEN [history |-> AppendAssistant(h, resp.res).history, err |-> TRUE,
               res |-> NoResult]
    ELSE AppendAssistant(h, resp.res)

\* func (c *Client) sendRequest, from the response on: the history, whether
\* an error is returned, and the ChatResult
sendRequest(h, resp) ==
    IF resp.kind \in {"transport", "status", "decode"} THEN ReturnError(h)
    ELSE IF resp.res.err THEN ReturnError(h)
    ELSE AppendAssistant(h, resp.res)

-----------------------------------------------------------------------------
(* sendMessage *)

\* the recovered calls put before the native ones
MergeParsedFirst(res, parsed) ==
    IF Len(parsed.toolCalls) > 0
    THEN [res EXCEPT !.ToolCalls = parsed.toolCalls \o res.ToolCalls,
                     !.Content = parsed.text]
    ELSE res

\* chat.go lines 1548-1553: the recovered calls after the native ones
MergeParsed(res, parsed) ==
    IF Len(parsed.toolCalls) > 0
    THEN [res EXCEPT !.ToolCalls = res.ToolCalls \o parsed.toolCalls,
                     !.Content = parsed.text]
    ELSE res

\* the result as the client returned it, its text not parsed
MergeNative(res) == res

\* chat.go lines 1547-1553 and 1612-1617
MergeTextCalls(res) == MergeParsed(res, ParseToolCallsFromText(res.Content))

RunCommandName ==
    <<"r", "u", "n", "_", "c", "o", "m", "m", "a", "n", "d">>

\* the sentinel that executeTool returns for a failed command
CommandFailed ==
    <<"C", "O", "M", "M", "A", "N", "D", " ", "F", "A", "I", "L", "E", "D">>

CommandSucceeded ==
    <<"C", "o", "m", "m", "a", "n", "d", " ", "s", "u", "c", "c", "e", "e", "d", "e", "d">>

\* what executeTool can return for a call
ToolResults(tc) ==
    IF tc.Name = RunCommandName THEN {CommandSucceeded, CommandFailed}
    ELSE {CommandSucceeded}

InterruptNext ==
    <<"n", "e", "x", "t">>

InterruptStop ==
    <<"S", "T", "O", "P">>

\* chat.go lines 1678-1684: executeTool records an interrupt for a
\* run_command that succeeded while todos are pending
ExecuteInterrupt(h, tc, toolResult, pending, interrupts) ==
    IF tc.Name = RunCommandName /\ toolResult = CommandSucceeded /\ pending /\ interrupts
    THEN AddUserInterrupt(h, InterruptNext)
    ELSE h

\* chat.go lines 1580-1595: the interrupt after a failed command
FailInterrupt(h, failed, interrupts) ==
    IF failed /\ interrupts THEN AddUserInterrupt(h, InterruptStop) ELSE h

-----------------------------------------------------------------------------
(* The permission gate: Chat.confirmTool, the permission table of the      *)
(* configuration, and the dispatch of executeTool to the executor.         *)

UpperCase ==
    <<"A", "B", "C", "D", "E", "F", "G", "H", "I", "J", "K", "L", "M", "N", "O", "P",
      "Q", "R", "S", "T", "U", "V", "W", "X", "Y", "Z">>

LowerCase ==
    <<"a", "b", "c", "d", "e", "f", "g", "h", "i", "j", "k", "l", "m", "n", "o", "p",
      "q", "r", "s", "t", "u", "v", "w", "x", "y", "z">>

\* strings.ToLower
ToLower(s) ==
    [i \in 1..Len(s) |->
        IF \E k \in 1..Len(UpperCase) : UpperCase[k] = s[i]
        THEN LowerCase[CHOOSE k \in 1..Len(UpperCase) : UpperCase[k] = s[i]]
        ELSE s[i]]

Permissions == {"always", "ask", "never"}

\* func (c *Config) GetToolPermission
GetToolPermission(table, tool) ==
    IF tool \in DOMAIN table THEN table[tool] ELSE "ask"

\* SetToolPermission dropping the other entries of the table
SetToolPermissionOnly(table, tool, permission) ==
    [t \in {tool} |-> permission]

\* func (c *Config) SetToolPermission
SetToolPermission(table, tool, permission) ==
    [t \in DOMAIN table \cup {tool} |-> IF t = tool THEN permission ELSE table[t]]

\* what a confirmTool call did: its return value, whether it read the table,
\* whether it prompted, the table after it, whether it called c.cfg.Save()
Confirmed(approved, consulted, prompted, table, saved) ==
    [approved |-> approved, consulted |-> consulted, prompted |-> prompted,
     table |-> table, saved |-> saved]

\* the answers of confirmTool's switch
YesAnswers == {<<"y">>, <<"y", "e", "s">>}

AlwaysAnswers == {<<"a">>, <<"a", "l", "w", "a", "y", "s">>}

NeverAnswers == {<<"!">>, <<"n", "e", "v", "e", "r">>}

\* confirmTool from c.rl.Readline() on: read is [line, err]
confirmPrompt(table, toolName, read) ==
    IF read.err THEN Confirmed(FALSE, TRUE, TRUE, table, FALSE)
    ELSE IF ToLower(TrimSpace(read.line)) \in YesAnswers
    THEN Confirmed(TRUE, TRUE, TRUE, table, FALSE)
    ELSE IF ToLower(TrimSpace(read.line)) \in AlwaysAnswers
    THEN Confirmed(TRUE, TRUE, TRUE, SetToolPermission(table, toolName, "always"), TRUE)
    ELSE IF ToLower(TrimSpace(read.line)) \in NeverAnswers
    THEN Confirmed(FALSE, TRUE, TRUE, SetToolPermission(table, toolName, "never"), TRUE)
    ELSE Confirmed(FALSE, TRUE, TRUE, table, FALSE)

\* confirmTool reading the table before it tests autoExec
confirmToolTableFirst(auto, table, interactive, toolName, read) ==
    IF GetToolPermission(table, toolName) = "always"
    THEN Confirmed(TRUE, TRUE, FALSE, table, FALSE)
    ELSE IF GetToolPermission(table, toolName) = "never"
    THEN Confirmed(FALSE, TRUE, FALSE, table, FALSE)
    ELSE IF auto THEN Confirmed(TRUE, TRUE, FALSE, table, FALSE)
    ELSE IF ~interactive THEN Confirmed(FALSE, TRUE, FALSE, table, FALSE)
    ELSE confirmPrompt(table, toolName, read)

\* func (c *Chat) confirmTool
confirmTool(auto, table, interactive, toolName, read) ==
    IF auto THEN Confirmed(TRUE, FALSE, FALSE, table, FALSE)
    ELSE IF GetToolPermission(table, toolName) = "always"
    THEN Confirmed(TRUE, TRUE, FALSE, table, FALSE)
    ELSE IF GetToolPermission(table, toolName) = "never"
    THEN Confirmed(FALSE, TRUE, FALSE, table, FALSE)
    ELSE IF ~interactive THEN Confirmed(FALSE, TRUE, FALSE, table, FALSE)
    ELSE confirmPrompt(table, toolName, read)

\* the cases of executeTool that call confirmTool before the executor, those
\* that call the executor at once, and a name of no case
GatedTools == {"run_command", "write_file"}

UngatedTools == {"read_file"}

ToolNames == GatedTools \cup UngatedTools \cup {"unknown_tool"}

\* no line was read
NoRead == [line |-> <<>>, err |-> FALSE]

\* an executeTool call: gated, whether it ran confirmTool; c, what confirmTool
\* did; executed, whether a method of c.exec was called
Gated(name, auto, interactive, table, read, gated, c, executed) ==
    [tool |-> name, auto |-> auto, interactive |-> interactive, before |-> table,
     read |-> IF c.prompted THEN read ELSE NoRead, gated |-> gated, approved |-> c.approved,
     consulted |-> c.consulted, prompted |-> c.prompted, after |-> c.table,
     saved |-> c.saved, executed |-> executed]

\* func (c *Chat) executeTool, as far as the gate and the executor
executeTool(name, auto, interactive, table, read) ==
    IF name \in GatedTools
    THEN Gated(name, auto, interactive, table, read, TRUE,
               confirmTool(auto, table, interactive, name, read),
               confirmTool(auto, table, interactive, name, read).approved)
    ELSE Gated(name, auto, interactive, table, read, FALSE,
               Confirmed(FALSE, FALSE, FALSE, table, FALSE), name \in UngatedTools)

NoGate ==
    Gated("none", FALSE, FALSE, <<>>, NoRead, FALSE,
          Confirmed(FALSE, FALSE, FALSE, <<>>, FALSE), FALSE)

-----------------------------------------------------------------------------
(* Error recovery: the todo file, the executor's result, and the           *)
(* run_command case of executeTool after the gate approved it.             *)

\* session.TodoItem
TodoItem(content, status) == [Content |-> content, Status |-> status]

\* func (tf *TodoFile) GetPending
GetPending(items) ==
    SelectSeq(items, LAMBDA it : it.Status \in {"pending", "in_progress"})

\* AddTodo placing the new item behind the others
AddTodoLast(items, content) ==
    IF \E i \in 1..Len(items) : items[i].Content = content /\ items[i].Status # "completed"
    THEN items
    ELSE items \o <<TodoItem(content, "pending")>>

\* func (tf *TodoFile) AddTodo
AddTodo(items, content) ==
    IF \E i \in 1..Len(items) : items[i].Content = content /\ items[i].Status # "completed"
    THEN items
    ELSE <<TodoItem(content, "pending")>> \o items

\* func (tf *TodoFile) Clear
Clear(items) == <<>>

\* PopFirst marking the item at the front, whatever its status
PopFront(items) ==
    IF GetPending(items) = <<>> THEN items
    ELSE [items EXCEPT ![1].Status = "completed"]

\* func (tf *TodoFile) PopFirst: the items after it
PopFirst(items) ==
    IF GetPending(items) = <<>> THEN items
    ELSE [items EXCEPT ![Min({i \in 1..Len(items) :
                                 items[i].Status \in {"pending", "in_progress"}})].Status =
                           "completed"]

\* os.Open of a file that does not exist fails
NoFile == [exists |-> FALSE, text |-> <<>>]

\* func (tf *TodoFile) SetInProgress(index int): the items after it
SetInProgress(items, index) ==
    IF index >= 0 /\ index < Len(items)
    THEN [items EXCEPT ![index + 1].Status = "in_progress"]
    ELSE items

\* func (tf *TodoFile) Complete(index int): the items after it
Complete(items, index) ==
    IF index >= 0 /\ index < Len(items)
    THEN [items EXCEPT ![index + 1].Status = "completed"]
    ELSE items

TodosTitle ==
    <<"#", " ", "A", "I", "C", "L", "I", " ", "T", "o", "d", "o", "s", "\n",
      "\n">>

InProgressHeader ==
    <<"#", "#", " ", "I", "n", " ", "P", "r", "o", "g", "r", "e", "s", "s">>

PendingHeader ==
    <<"#", "#", " ", "P", "e", "n", "d", "i", "n", "g">>

CompletedHeader ==
    <<"#", "#", " ", "C", "o", "m", "p", "l", "e", "t", "e", "d">>

OpenBox ==
    <<"-", " ", "[", " ", "]", " ">>

CheckedBox ==
    <<"-", " ", "[", "x", "]", " ">>

CompletedOpen ==
    <<" ", "*", "(", "c", "o", "m", "p", "l", "e", "t", "e", "d", " ">>

CompletedClose ==
    <<")", "*">>

\* item.CreatedAt.Format("2006-01-02") on the day of the run
DateStr ==
    <<"2", "0", "2", "6", "-", "1", "1", "-", "0", "5">>

\* Save, one section: the header, a line for each item, an empty line
Section(header, lines) ==
    IF Len(lines) = 0 THEN <<>>
    ELSE header \o <<"\n", "\n">> \o Concat(lines) \o <<"\n">>

\* the items of one status, in the order of tf.items
WithStatus(items, status) == SelectSeq(items, LAMBDA it : it.Status = status)

OpenLines(items) ==
    [i \in 1..Len(items) |-> OpenBox \o items[i].Content \o <<"\n">>]

CheckedLines(items) ==
    [i \in 1..Len(items) |->
        CheckedBox \o items[i].Content \o CompletedOpen \o DateStr \o CompletedClose
        \o <<"\n">>]

\* func (tf *TodoFile) Save: the file after it
Save(items) ==
    IF Len(items) = 0 THEN NoFile
    ELSE [exists |-> TRUE,
          text |-> TodosTitle
                   \o Section(InProgressHeader, OpenLines(WithStatus(items, "in_progress")))
                   \o Section(PendingHeader, OpenLines(WithStatus(items, "pending")))
                   \o Section(CompletedHeader, CheckedLines(WithStatus(items, "completed")))]

\* regexp `\s*\*\(completed [\d-]+\)\*$` matching all of s
IsCompletedNote(s) ==
    LET p == SkipSpace(s, 0)
        open == Slice(CompletedOpen, 1, Len(CompletedOpen))
        q == p + Len(open)
        r == Len(s) - Len(CompletedClose)
    IN /\ HasPrefixAt(s, p, open)
       /\ q < r
       /\ HasPrefixAt(s, r, CompletedClose)
       /\ \A k \in (q + 1)..r :
              s[k] = "-" \/ \E d \in 1..Len(DecimalDigits) : DecimalDigits[d] = s[k]

\* todoRegex.FindStringSubmatch(line): <<checkbox, content>>, or <<>> for no
\* match.  content is the shortest text after the box that the end of the
\* line or a completed note follows
TodoMatch(line) ==
    LET p == SkipSpace(line, 1)
        q == SkipSpace(line, p + 3)
        ends == {k \in (q + 1)..Len(line) :
                    k = Len(line) \/ IsCompletedNote(Slice(line, k, Len(line)))}
    IN IF /\ Len(line) >= 1 /\ line[1] = "-"
          /\ p > 1
          /\ p + 3 <= Len(line)
          /\ line[p + 1] = "[" /\ line[p + 2] \in {" ", "x"} /\ line[p + 3] = "]"
          /\ q > p + 3
          /\ ends # {}
       THEN <<line[p + 2], Slice(line, q, Min(ends))>>
       ELSE <<>>

\* Load, the section a header line opens ("" for a line that is no header)
SectionOf(line) ==
    IF HasPrefixAt(line, 0, InProgressHeader) THEN "in_progress"
    ELSE IF HasPrefixAt(line, 0, PendingHeader) THEN "pending"
    ELSE IF HasPrefixAt(line, 0, CompletedHeader) THEN "completed"
    ELSE ""

\* Load, the status of a matched line
StatusOf(section, checkbox) ==
    IF section # "" THEN section
    ELSE IF checkbox = "x" THEN "completed" ELSE "pending"

RECURSIVE LoadLines(_, _, _, _)
\* Load, the scanner loop from line i on
LoadLines(lines, i, section, items) ==
    IF i > Len(lines) THEN items
    ELSE IF SectionOf(TrimSpace(lines[i])) # ""
         THEN LoadLines(lines, i + 1, SectionOf(TrimSpace(lines[i])), items)
    ELSE IF TodoMatch(TrimSpace(lines[i])) # <<>>
         THEN LoadLines(lines, i + 1, section,
                        Append(items,
                               TodoItem(TodoMatch(TrimSpace(lines[i]))[2],
                                        StatusOf(section, TodoMatch(TrimSpace(lines[i]))[1]))))
    ELSE LoadLines(lines, i + 1, section, items)

\* func (tf *TodoFile) Load into a TodoFile that NewTodoFile made: the items
Load(file) ==
    IF ~file.exists THEN <<>>
    ELSE LoadLines(Split(file.text), 1, "", <<>>)

\* executor.Result
Run(output, error, exitCode) == [Output |-> output, Error |-> error, ExitCode |-> exitCode]

NoRun == Run(<<>>, <<>>, 0)

InterruptedByUser ==
    <<"C", "o", "m", "m", "a", "n", "d", " ", "i", "n", "t", "e", "r", "r",
      "u", "p", "t", "e", "d", " ", "b", "y", " ", "u", "s", "e", "r">>

\* func (e *Executor) Run when the user interrupts the command: the shell
\* dies of the signal, err is an *exec.ExitError whose ExitCode() is -1
RunKilled(output, error) == Run(output, error, -1)

\* func (e *Executor) RunWithContext when ctx is cancelled
RunWithContextCanceled(output) == Run(output, InterruptedByUser, -2)

\* func (r *Result) String
String(r) ==
    r.Output
    \o (IF r.Error = <<>> THEN <<>>
        ELSE (IF r.Output # <<>> THEN <<"\n">> ELSE <<>>) \o <<"s", "t", "d", "e", "r", "r", ":", " ">> \o r.Error)

\* func (r *Result) Success
Success(r) == r.ExitCode = 0

\* the test of stderr left out: the exit code alone decides
stderrIgnored(stderr) == FALSE

\* executeTool, lines 1651-1656
stderrHasError(stderr) ==
    /\ stderr # <<>>
    /\ \E m \in {<<"e", "r", "r", "o", "r">>, <<"E", "r", "r", "o", "r">>, <<"f", "a", "i", "l", "e", "d">>,
                 <<"n", "o", "t", " ", "f", "o", "u", "n", "d">>, <<"c", "a", "n", "n", "o", "t", " ", "f", "i", "n", "d">>, <<"u", "n", "d", "e", "f", "i", "n", "e", "d">>} : Contains(stderr, m)

\* the patterns and the fixes of getFixCommand
GoModNotFound ==
    <<"g", "o", ".", "m", "o", "d", " ", "f", "i", "l", "e", " ", "n", "o",
      "t", " ", "f", "o", "u", "n", "d">>

MissingGoSum ==
    <<"m", "i", "s", "s", "i", "n", "g", " ", "g", "o", ".", "s", "u", "m",
      " ", "e", "n", "t", "r", "y">>

NoRequiredModule ==
    <<"n", "o", " ", "r", "e", "q", "u", "i", "r", "e", "d", " ", "m", "o",
      "d", "u", "l", "e", " ", "p", "r", "o", "v", "i", "d", "e", "s">>

ModuleNotFoundErrorText ==
    <<"M", "o", "d", "u", "l", "e", "N", "o", "t", "F", "o", "u", "n", "d",
      "E", "r", "r", "o", "r">>

NoModuleNamed ==
    <<"N", "o", " ", "m", "o", "d", "u", "l", "e", " ", "n", "a", "m", "e",
      "d">>

CannotFindModule ==
    <<"C", "a", "n", "n", "o", "t", " ", "f", "i", "n", "d", " ", "m", "o",
      "d", "u", "l", "e">>

GoModInit ==
    <<"g", "o", " ", "m", "o", "d", " ", "i", "n", "i", "t", " ", "m", "y",
      "p", "r", "o", "j", "e", "c", "t">>

GoModTidy ==
    <<"g", "o", " ", "m", "o", "d", " ", "t", "i", "d", "y">>

PipInstall ==
    <<"p", "i", "p", " ", "i", "n", "s", "t", "a", "l", "l", " ", "<", "m",
      "i", "s", "s", "i", "n", "g", "-", "m", "o", "d", "u", "l", "e", ">">>

NpmInstall ==
    <<"n", "p", "m", " ", "i", "n", "s", "t", "a", "l", "l">>

\* a return value of getFixCommand
Fix(cmd, concrete) == [cmd |-> cmd, concrete |-> concrete]

\* getFixCommand returning the Python fix as a concrete command
getFixCommandConcrete(output) ==
    IF Contains(output, GoModNotFound) THEN Fix(GoModInit, TRUE)
    ELSE IF Contains(output, MissingGoSum) THEN Fix(GoModTidy, TRUE)
    ELSE IF Contains(output, NoRequiredModule) THEN Fix(GoModTidy, TRUE)
    ELSE IF Contains(output, ModuleNotFoundErrorText) \/ Contains(output, NoModuleNamed)
    THEN Fix(PipInstall, TRUE)
    ELSE IF Contains(output, CannotFindModule) THEN Fix(NpmInstall, TRUE)
    ELSE Fix(<<>>, FALSE)

\* func getFixCommand
getFixCommand(output) ==
    IF Contains(output, GoModNotFound) THEN Fix(GoModInit, TRUE)
    ELSE IF Contains(output, MissingGoSum) THEN Fix(GoModTidy, TRUE)
    ELSE IF Contains(output, NoRequiredModule) THEN Fix(GoModTidy, TRUE)
    ELSE IF Contains(output, ModuleNotFoundErrorText) \/ Contains(output, NoModuleNamed)
    THEN Fix(PipInstall, FALSE)
    ELSE IF Contains(output, CannotFindModule) THEN Fix(NpmInstall, TRUE)
    ELSE Fix(<<>>, FALSE)

unfixablePatterns ==
    {<<"n", "o", " ", "m", "a", "t", "c", "h", "i", "n", "g", " ", "v", "e", "r", "s", "i", "o", "n", "s">>,
     <<"4", "0", "4", " ", "N", "o", "t", " ", "F", "o", "u", "n", "d">>,
     <<"c", "o", "u", "l", "d", " ", "n", "o", "t", " ", "r", "e", "a", "d", " ", "U", "s", "e", "r", "n", "a", "m", "e">>,
     <<"i", "n", "v", "a", "l", "i", "d", " ", "v", "e", "r", "s", "i", "o", "n">>,
     <<"u", "n", "k", "n", "o", "w", "n", " ", "r", "e", "v", "i", "s", "i", "o", "n">>,
     <<"m", "a", "l", "f", "o", "r", "m", "e", "d", " ", "m", "o", "d", "u", "l", "e", " ", "p", "a", "t", "h">>,
     <<"u", "n", "r", "e", "c", "o", "g", "n", "i", "z", "e", "d", " ", "i", "m", "p", "o", "r", "t", " ", "p", "a", "t", "h">>,
     <<"a", "l", "r", "e", "a", "d", "y", " ", "e", "x", "i", "s", "t", "s">>,
     <<"f", "i", "l", "e", " ", "e", "x", "i", "s", "t", "s">>}

\* isUnfixableByRerun finding no pattern
isUnfixableNever(output) == FALSE

\* func isUnfixableByRerun
isUnfixableByRerun(output) == \E pattern \in unfixablePatterns : Contains(output, pattern)

\* the patterns of the first loop of extractErrorSummary
SummaryPatterns ==
    {<<"u", "n", "d", "e", "f", "i", "n", "e", "d", ":">>,
     <<"c", "a", "n", "n", "o", "t", " ", "f", "i", "n", "d">>,
     <<"n", "o", " ", "r", "e", "q", "u", "i", "r", "e", "d", " ", "m", "o", "d", "u", "l", "e">>,
     <<"m", "i", "s", "s", "i", "n", "g", " ", "g", "o", ".", "s", "u", "m", " ", "e", "n", "t", "r", "y">>,
     <<"e", "r", "r", "o", "r", ":">>,
     <<"E", "r", "r", "o", "r", ":">>,
     <<"F", "A", "I", "L", "E", "D">>,
     <<"f", "a", "t", "a", "l", ":">>,
     <<"M", "o", "d", "u", "l", "e", "N", "o", "t", "F", "o", "u", "n", "d", "E", "r", "r", "o", "r">>,
     <<"I", "m", "p", "o", "r", "t", "E", "r", "r", "o", "r">>,
     <<"S", "y", "n", "t", "a", "x", "E", "r", "r", "o", "r">>,
     <<"C", "a", "n", "n", "o", "t", " ", "f", "i", "n", "d", " ", "m", "o", "d", "u", "l", "e">>,
     <<"E", "R", "R", "!">>,
     <<"c", "o", "m", "m", "a", "n", "d", " ", "n", "o", "t", " ", "f", "o", "u", "n", "d">>,
     <<"n", "o", "t", " ", "f", "o", "u", "n", "d">>}

\* the positions of the trimmed lines that hold a pattern, and of those that
\* are not empty and shorter than 200
SummaryLines(lines) ==
    {k \in 1..Len(lines) : \E q \in SummaryPatterns : Contains(TrimSpace(lines[k]), q)}

ShortLines(lines) ==
    {k \in 1..Len(lines) : TrimSpace(lines[k]) # <<>> /\ Len(TrimSpace(lines[k])) < 200}

\* extractErrorSummary on the lines of the output
SummaryOf(lines, command) ==
    IF SummaryLines(lines) # {} THEN TrimSpace(lines[Min(SummaryLines(lines))])
    ELSE IF Contains(command, <<"g", "o", " ", "b", "u", "i", "l", "d">>)
    THEN <<"G", "o", " ", "b", "u", "i", "l", "d", " ", "f", "a", "i", "l", "e",
      "d", " ", "-", " ", "c", "h", "e", "c", "k", " ", "f", "o", "r", " ",
      "c", "o", "m", "p", "i", "l", "a", "t", "i", "o", "n", " ", "e", "r",
      "r", "o", "r", "s", " ", "a", "b", "o", "v", "e">>
    ELSE IF Contains(command, <<"n", "p", "m">>) \/ Contains(command, <<"y", "a", "r", "n">>)
    THEN <<"N", "o", "d", "e", " ", "p", "a", "c", "k", "a", "g", "e", " ", "o",
      "p", "e", "r", "a", "t", "i", "o", "n", " ", "f", "a", "i", "l", "e",
      "d">>
    ELSE IF Contains(command, <<"p", "i", "p">>)
    THEN <<"P", "y", "t", "h", "o", "n", " ", "p", "a", "c", "k", "a", "g", "e",
      " ", "o", "p", "e", "r", "a", "t", "i", "o", "n", " ", "f", "a", "i",
      "l", "e", "d">>
    ELSE IF Contains(command, <<"c", "a", "r", "g", "o">>)
    THEN <<"R", "u", "s", "t", " ", "b", "u", "i", "l", "d", " ", "f", "a", "i",
      "l", "e", "d">>
    ELSE IF ShortLines(lines) # {} THEN TrimSpace(lines[Min(ShortLines(lines))])
    ELSE <<"C", "o", "m", "m", "a", "n", "d", " ", "e", "x", "i", "t", "e", "d",
      " ", "w", "i", "t", "h", " ", "n", "o", "n", "-", "z", "e", "r", "o",
      " ", "s", "t", "a", "t", "u", "s">>

\* func extractErrorSummary
extractErrorSummary(output, command) == SummaryOf(Split(output), command)

\* executeTool, lines 1689-1692
errorSummary(stderr, output, command) ==
    IF extractErrorSummary(stderr, command) = <<>> THEN extractErrorSummary(output, command)
    ELSE extractErrorSummary(stderr, command)

\* executeTool, lines 1693-1696
fixCmd(stderr, output) ==
    IF getFixCommand(stderr).cmd = <<>> THEN getFixCommand(output)
    ELSE getFixCommand(stderr)

ReRunPrefix ==
    <<"T", "h", "e", "n", " ", "r", "e", "-", "r", "u", "n", ":", " ">>

RunPrefix == <<"R", "u", "n", ":", " ">>

FixPrefix == <<"F", "i", "x", ":", " ">>

CheckTheCommand ==
    <<"C", "h", "e", "c", "k", " ", "t", "h", "e", " ", "c", "o", "m", "m",
      "a", "n", "d", " ", "-", " ", "t", "h", "e", " ", "p", "a", "c", "k",
      "a", "g", "e", "/", "v", "e", "r", "s", "i", "o", "n", " ", "m", "a",
      "y", " ", "n", "o", "t", " ", "e", "x", "i", "s", "t", ".", " ", "U",
      "s", "e", " ", "'", "g", "o", " ", "l", "i", "s", "t", " ", "-", "m",
      " ", "-", "v", "e", "r", "s", "i", "o", "n", "s", " ", "<", "m", "o",
      "d", "u", "l", "e", ">", "@", "l", "a", "t", "e", "s", "t", "'", " ",
      "t", "o", " ", "f", "i", "n", "d", " ", "v", "a", "l", "i", "d", " ",
      "v", "e", "r", "s", "i", "o", "n", "s">>

\* executeTool, lines 1700-1720: the todo file after a failure
FailureTodos(items, command, fix, unfixable) ==
    IF fix.cmd # <<>>
    THEN AddTodo(IF ~unfixable THEN AddTodo(Clear(items), ReRunPrefix \o command)
                 ELSE Clear(items),
                 (IF fix.concrete THEN RunPrefix ELSE FixPrefix) \o fix.cmd)
    ELSE IF unfixable THEN AddTodo(Clear(items), CheckTheCommand)
    ELSE Clear(items)

RECURSIVE TodoLines(_, _)
\* executeTool, lines 1726-1728: fmt "%d. %s\n" of the items from i on
TodoLines(pending, i) ==
    IF i > Len(pending) THEN <<>>
    ELSE Itoa(i) \o <<".", " ">> \o pending[i].Content \o <<"\n">> \o TodoLines(pending, i + 1)

\* executeTool, lines 1722-1729
todoList(pending) ==
    IF Len(pending) > 0
    THEN <<"\n", "\n", "R", "E", "Q", "U", "I", "R", "E", "D", " ", "T", "O", "D",
      "O", " ", "S", "T", "A", "C", "K", " ", "(", "d", "o", " ", "t", "h",
      "e", "s", "e", " ", "i", "n", " ", "o", "r", "d", "e", "r", ")", ":",
      "\n">>
         \o TodoLines(pending, 1)
    ELSE <<>>

\* executeTool, lines 1731-1735
stderrSection(stderr) ==
    IF stderr # <<>>
    THEN <<"\n", "\n", "S", "T", "D", "E", "R", "R", " ", "O", "U", "T", "P", "U",
      "T", ":", "\n">>
         \o stderr \o <<"\n">>
    ELSE <<>>

\* executeTool, lines 1737-1742
FailureMessage(exitCode, stderr, pending, summary) ==
    CommandFailed \o <<" ", "(", "e", "x", "i", "t", " ">> \o Itoa(exitCode) \o <<")", "\n">>
    \o stderrSection(stderr)
    \o <<"\n", "=", "=", "=", " ", "S", "T", "O", "P", " ", "-", " ", "Y", "O",
      "U", " ", "M", "U", "S", "T", " ", "F", "I", "X", " ", "T", "H", "I",
      "S", " ", "=", "=", "=", "\n">>
    \o todoList(pending)
    \o <<"\n", "E", "r", "r", "o", "r", " ", "S", "u", "m", "m", "a", "r", "y",
      ":", " ">>
    \o summary
    \o <<"\n", "\n", "D", "O", " ", "N", "O", "T", " ", "r", "u", "n", " ", "o",
      "t", "h", "e", "r", " ", "c", "o", "m", "m", "a", "n", "d", "s", ".",
      " ", "E", "x", "e", "c", "u", "t", "e", " ", "t", "h", "e", " ", "f",
      "i", "r", "s", "t", " ", "T", "O", "D", "O", " ", "i", "t", "e", "m",
      " ", "N", "O", "W", ".">>

\* what the run_command case returns and leaves: the todo file, the returned
\* string, the interrupt recorded with the client (empty: none)
Ran(items, ret, interrupt) == [items |-> items, ret |-> ret, interrupt |-> interrupt]

\* executeTool, lines 1662-1667
todoCmd(firstTodo) ==
    IF HasPrefixAt(firstTodo, 0, RunPrefix) THEN Slice(firstTodo, Len(RunPrefix), Len(firstTodo))
    ELSE IF HasPrefixAt(firstTodo, 0, ReRunPrefix)
    THEN Slice(firstTodo, Len(ReRunPrefix), Len(firstTodo))
    ELSE firstTodo

\* executeTool, lines 1659-1673: the todo file after a success
SuccessTodos(items, command) ==
    IF /\ Len(GetPending(items)) > 0
       /\ \/ Contains(command, todoCmd(GetPending(items)[1].Content))
          \/ Contains(todoCmd(GetPending(items)[1].Content), command)
    THEN PopFirst(items)
    ELSE items

\* the interrupt recorded whatever the configuration says
SuccessReturnNudging(items, output, interrupts) ==
    Ran(items, <<"C", "o", "m", "m", "a", "n", "d", " ", "s", "u", "c", "c", "e", "e",
      "d", "e", "d", ":", "\n">> \o output,
        IF Len(GetPending(items)) > 0
        THEN <<"G", "o", "o", "d", ".", " ", "N", "o", "w", " ", "r", "u", "n", " ",
      "t", "h", "e", " ", "n", "e", "x", "t", " ", "c", "o", "m", "m", "a",
      "n", "d", ":", " ">>
             \o GetPending(items)[1].Content
        ELSE <<>>)

\* executeTool, lines 1675-1685
SuccessReturn(items, output, interrupts) ==
    Ran(items, <<"C", "o", "m", "m", "a", "n", "d", " ", "s", "u", "c", "c", "e", "e",
      "d", "e", "d", ":", "\n">> \o output,
        IF Len(GetPending(items)) > 0 /\ interrupts
        THEN <<"G", "o", "o", "d", ".", " ", "N", "o", "w", " ", "r", "u", "n", " ",
      "t", "h", "e", " ", "n", "e", "x", "t", " ", "c", "o", "m", "m", "a",
      "n", "d", ":", " ">>
             \o GetPending(items)[1].Content
        ELSE <<>>)

\* executeTool, lines 1687-1742
FailureReturn(items, r, command) ==
    Ran(items, FailureMessage(r.ExitCode, r.Error, GetPending(items),
                              errorSummary(r.Error, String(r), command)), <<>>)

\* executeTool's run_command case from c.exec.Run's return on
runCommand(items, command, r, interrupts) ==
    IF Success(r) /\ ~stderrHasError(r.Error)
    THEN SuccessReturn(SuccessTodos(items, command), String(r), interrupts)
    ELSE FailureReturn(FailureTodos(items, command, fixCmd(r.Error, String(r)),
                                    isUnfixableByRerun(r.Error)
                                      \/ isUnfixableByRerun(String(r))),
                       r, command)

-----------------------------------------------------------------------------
(* The extractor applied to every bounded string and start index.  The     *)
(* callers pass start = 0 or the offset of a matched '{', never a negative *)
(* index.                                                                  *)

ExtractIdle ==
    /\ exS = <<>>
    /\ exStart = 0
    /\ exResult = NotFound
    /\ exPc = "idle"

ParseIdle ==
    /\ ptSegs = <<>>
    /\ cleanedText = <<>>
    /\ toolCalls = <<>>
    /\ callIndex = 0
    /\ ptName = 0
    /\ ptPc = "idle"

StreamIdle ==
    /\ stLines = <<>>
    /\ stFail = FALSE
    /\ stPos = 0
    /\ contentBuilder = <<>>
    /\ toolCallsMap = <<>>
    /\ finishReason = <<>>
    /\ scanErr = FALSE
    /\ stResult = NoResult
    /\ stPc = "idle"

GateIdle ==
    /\ autoExec = FALSE
    /\ rl = FALSE
    /\ toolPermissions = <<>>
    /\ gateLog = NoGate

RecoverIdle ==
    /\ todoItems = <<>>
    /\ rcCommand = <<>>
    /\ rcRun = NoRun
    /\ rcReturn = <<>>
    /\ rcBefore = <<>>
    /\ rcPc = "idle"
    /\ rcRuns = 0
    /\ rcCancelled = FALSE
    /\ rcLog = <<>>

TodoIdle == tfFile = NoFile

\* the channels a Listener starts with: New makes stopCh, doneCh is nil
FirstStop == 1

NilChan == 0

Callers == {"main", "other"}

\* func New, and no caller inside Start
KeysIdle ==
    /\ klActive = FALSE
    /\ klOldState = FALSE
    /\ klStops = <<FirstStop>>
    /\ klDones = <<NilChan>>
    /\ klClosed = {}
    /\ klPanic = FALSE
    /\ klLoops = <<>>
    /\ klCallers = [c \in Callers |-> [pc |-> "idle", wait |-> NilChan]]

ToolsIdle == GateIdle /\ RecoverIdle /\ TodoIdle /\ KeysIdle

ChatIdle ==
    /\ history = <<>>
    /\ systemPrompt = <<>>
    /\ userInterrupts = FALSE
    /\ requestNum = 0
    /\ reqMessages = <<>>
    /\ smPc = "idle"
    /\ result = NoResult
    /\ tcPos = 0
    /\ preHistory = <<>>
    /\ userText = <<>>
    /\ callErr = "none"
    /\ retry = FALSE

ExtractInit ==
    /\ exS \in SeqsUpTo(ExtractAlphabet, MaxStrLen)
    /\ exStart \in (0..MaxStart) \cup {Len(exS)}
    /\ exResult = NotFound
    /\ exPc = "call"
    /\ ParseIdle
    /\ StreamIdle
    /\ ChatIdle
    /\ ToolsIdle

ExtractCall ==
    /\ exPc = "call"
    /\ exResult' = extractJSON(exS, exStart)
    /\ exPc' = "done"
    /\ UNCHANGED <<exS, exStart, ptVars, tlVars, stVars, chVars>>

ExtractNext == ExtractCall

SpecExtract == ExtractInit /\ [][ExtractNext]_vars

-----------------------------------------------------------------------------
(* The texts handed to ParseToolCallsFromText: model output made of up to  *)
(* three segments, one per line.  The middle one is a tool call, tagged or *)
(* raw, whose string argument is any content up to the bound; the outer    *)
(* ones are prose, a tool call, or a malformed occurrence.                 *)

\* what a content is made of: the characters the extractor distinguishes, an
\* ordinary one, and the marker texts themselves
ContentUnits ==
    {<<"a">>, <<"{">>, <<"}">>, <<"\"">>, <<"\\">>, OpenTag, closeTag}

Flatten(units) == Concat(units)

Contents == {Flatten(u) : u \in SeqsUpTo(ContentUnits, MaxContentLen)}

EscapeChar(ch) ==
    CASE ch = "\"" -> <<"\\", "\"">>
      [] ch = "\\" -> <<"\\", "\\">>
      [] ch = "\n" -> <<"\\", "n">>
      [] OTHER -> <<ch>>

EscapeBody(c) == Concat([k \in 1..Len(c) |-> EscapeChar(c[k])])

\* content as a JSON string literal: quotes, backslashes and control
\* characters escaped (RFC 8259), everything else as it stands
EncodeString(c) == <<"\"">> \o EscapeBody(c) \o <<"\"">>

WriteFileName ==
    <<"w", "r", "i", "t", "e", "_", "f", "i", "l", "e">>

ReadFileName ==
    <<"r", "e", "a", "d", "_", "f", "i", "l", "e">>

ContentKey ==
    <<"c", "o", "n", "t", "e", "n", "t">>

PathKey ==
    <<"p", "a", "t", "h">>

\* {"content":<c>} and {"path":<c>}
WriteFileArguments(c) ==
    <<"{">> \o EncodeString(ContentKey) \o <<":">> \o EncodeString(c) \o <<"}">>

ReadFileArguments(c) ==
    <<"{">> \o EncodeString(PathKey) \o <<":">> \o EncodeString(c) \o <<"}">>

CommandKey ==
    <<"c", "o", "m", "m", "a", "n", "d">>

\* the arguments of a run_command call: {"command":<c>}
RunCommandArguments(c) ==
    <<"{">> \o EncodeString(CommandKey) \o <<":">> \o EncodeString(c) \o <<"}">>

\* {"name":"write_file","arguments":{"content":<c>}}
TaggedObject(c) ==
    <<"{">> \o EncodeString(NameKey) \o <<":">> \o EncodeString(WriteFileName)
    \o <<",">> \o EncodeString(ArgumentsKey) \o <<":">> \o WriteFileArguments(c)
    \o <<"}">>

\* an object that never closes, and a balanced one that is not JSON
UnbalancedObject ==
    <<"{", "\"", "n", "a", "m", "e", "\"", ":", "\"", "w", "r", "i", "t",
      "e", "_", "f", "i", "l", "e", "\"">>

InvalidObject ==
    <<"{", "\"", "n", "a", "m", "e", "\"", ":", "w", "r", "i", "t", "e", "_",
      "f", "i", "l", "e", "}">>

RawUnbalanced ==
    <<"{", "\"", "p", "a", "t", "h", "\"", ":">>

RawInvalid ==
    <<"{", "p", "a", "t", "h", "}">>

PlainText ==
    <<"o", "k">>

Segment(kind, content) == [kind |-> kind, content |-> content]

WellFormedKinds == {"tagged", "raw"}

MalformedKinds ==
    {"tagged_unbalanced", "tagged_invalid", "raw_unbalanced", "raw_invalid"}

\* the text of a segment
SegmentText(seg) ==
    CASE seg.kind = "plain" -> PlainText
      [] seg.kind = "tagged" ->
            OpenTag \o <<"\n">> \o TaggedObject(seg.content) \o <<"\n">> \o closeTag
      [] seg.kind = "raw" ->
            ReadFileName \o <<" ">> \o ReadFileArguments(seg.content)
      [] seg.kind = "raw_run" ->
            RunCommandName \o <<"\n">> \o RunCommandArguments(seg.content)
      [] seg.kind = "tagged_unbalanced" -> OpenTag \o UnbalancedObject \o closeTag
      [] seg.kind = "tagged_invalid" -> OpenTag \o InvalidObject \o closeTag
      [] seg.kind = "raw_unbalanced" -> ReadFileName \o <<" ">> \o RawUnbalanced
      [] seg.kind = "raw_invalid" -> ReadFileName \o <<" ">> \o RawInvalid

\* the segments, one per line
Render(segs) ==
    Concat([k \in 1..Len(segs) |->
               IF k = 1 THEN SegmentText(segs[k]) ELSE <<"\n">> \o SegmentText(segs[k])])

ContextSegments ==
    {Segment(k, <<"a">>) : k \in {"plain"} \cup WellFormedKinds \cup MalformedKinds}

FocusSegments == {Segment(k, c) : k \in WellFormedKinds, c \in Contents}

\* none or one of S, as a sequence
Optional(S) == {<<>>} \cup {<<x>> : x \in S}

ParseInputs ==
    {b \o f \o a : b \in Optional(ContextSegments), f \in Optional(FocusSegments),
                   a \in Optional(ContextSegments)}

ParseInit ==
    /\ ptSegs \in ParseInputs
    /\ cleanedText = Render(ptSegs)
    /\ toolCalls = <<>>
    /\ callIndex = 0
    /\ ptName = 1
    /\ ptPc = "tagged"
    /\ ExtractIdle
    /\ StreamIdle
    /\ ChatIdle
    /\ ToolsIdle

\* the locals after an iteration
ParseAssign(r) ==
    /\ cleanedText' = r.st.text
    /\ toolCalls' = r.st.calls
    /\ callIndex' = r.st.index

\* one iteration of the tagged loop; its break starts the raw pass
ParseTaggedStep(r) ==
    /\ ParseAssign(r)
    /\ ptPc' = IF r.stop THEN "raw" ELSE "tagged"
    /\ UNCHANGED <<ptSegs, ptName, exVars, tlVars, stVars, chVars>>

ParseTagged ==
    /\ ptPc = "tagged"
    /\ ParseTaggedStep(TaggedIteration(ParseState(cleanedText, toolCalls, callIndex)))

\* one iteration of the raw loop of knownToolNames[ptName]; its break moves
\* the range on, and ends it after the last name
ParseRawStep(r) ==
    /\ ParseAssign(r)
    /\ ptName' = IF r.stop THEN ptName + 1 ELSE ptName
    /\ ptPc' = IF r.stop /\ ptName = Len(knownToolNames) THEN "return" ELSE "raw"
    /\ UNCHANGED <<ptSegs, exVars, tlVars, stVars, chVars>>

ParseRaw ==
    /\ ptPc = "raw"
    /\ ParseRawStep(RawIteration(ParseState(cleanedText, toolCalls, callIndex),
                                 knownToolNames[ptName]))

\* cleanedText = strings.TrimSpace(cleanedText); return toolCalls, cleanedText
ParseReturn ==
    /\ ptPc = "return"
    /\ cleanedText' = TrimSpace(cleanedText)
    /\ ptPc' = "done"
    /\ UNCHANGED <<ptSegs, toolCalls, callIndex, ptName, exVars, tlVars, stVars, chVars>>

ParseNext == ParseTagged \/ ParseRaw \/ ParseReturn

SpecParse == ParseInit /\ [][ParseNext]_vars

-----------------------------------------------------------------------------
(* The bodies handed to handleStreamResponse: up to MaxLines lines, each a  *)
(* line the loop skips, the [DONE] line, or a chunk carrying text, a finish *)
(* reason, or fragments of the tool calls at stream indexes 0 and 1.        *)

StopReason ==
    <<"s", "t", "o", "p">>

Fragments ==
    {Fragment(i, id, <<"f">>, a) :
        i \in {0, 1}, id \in {<<>>, <<"x">>}, a \in {<<"{">>, <<"}">>}}

Lines ==
    {Line("other", <<>>), Line("bad", <<>>), Line("done", <<>>), Line("chunk", <<>>),
     Line("chunk", <<Choice(<<"a">>, <<>>, <<>>)>>),
     Line("chunk", <<Choice(<<>>, <<>>, StopReason)>>),
     Line("chunk", <<Choice(<<"a">>, <<>>, <<>>), Choice(<<"b">>, <<>>, StopReason)>>),
     Line("chunk", <<Choice(<<>>, <<Fragment(1, <<>>, <<"f">>, <<"{">>),
                                  Fragment(0, <<>>, <<"f">>, <<"{">>)>>, <<>>)>>)}
    \cup {Line("chunk", <<Choice(<<>>, <<f>>, <<>>)>>) : f \in Fragments}
    \cup {Line("chunk", <<Choice(<<>>, <<Fragment(0, <<"y">>, <<"f">>, <<"}">>)>>, <<>>)>>)}

StreamInit ==
    /\ stLines \in SeqsUpTo(Lines, MaxLines)
    /\ stFail \in BOOLEAN
    /\ stPos = 0
    /\ contentBuilder = <<>>
    /\ toolCallsMap = <<>>
    /\ finishReason = <<>>
    /\ scanErr = FALSE
    /\ stResult = NoResult
    /\ stPc = "scan"
    /\ ExtractIdle
    /\ ParseIdle
    /\ ChatIdle
    /\ ToolsIdle

\* the locals after the body of the loop
StreamAssign(st) ==
    /\ contentBuilder' = st.content
    /\ toolCallsMap' = st.calls
    /\ finishReason' = st.finish
    /\ stPc' = IF st.stop THEN "return" ELSE "scan"

\* scanner.Scan() returns true: one iteration of the loop
StreamScanLine ==
    /\ stPc = "scan"
    /\ stPos < Len(stLines)
    /\ stPos' = stPos + 1
    /\ StreamAssign(StreamLine(StreamLocals(contentBuilder, toolCallsMap, finishReason, FALSE),
                               stLines[stPos + 1]))
    /\ UNCHANGED <<stLines, stFail, scanErr, stResult, exVars, tlVars, ptVars, chVars>>

\* scanner.Scan() returns false: the body has ended, or reading it failed
StreamEnd ==
    /\ stPc = "scan"
    /\ stPos = Len(stLines)
    /\ scanErr' = stFail
    /\ stPc' = "return"
    /\ UNCHANGED <<stLines, stFail, stPos, contentBuilder, toolCallsMap, finishReason,
                   stResult, exVars, tlVars, ptVars, chVars>>

\* lines 531-537: the range over toolCallsMap visits the keys in any order
StreamReturn ==
    /\ stPc = "return"
    /\ \E o \in Orders(DOMAIN toolCallsMap) :
          stResult' = ChatResult(contentBuilder, toolCallsMap, finishReason, o, scanErr)
    /\ stPc' = "done"
    /\ UNCHANGED <<stLines, stFail, stPos, contentBuilder, toolCallsMap, finishReason,
                   scanErr, exVars, tlVars, ptVars, chVars>>

StreamNext == StreamScanLine \/ StreamEnd \/ StreamReturn

SpecStream == StreamInit /\ [][StreamNext]_vars

-----------------------------------------------------------------------------
(* A conversation: the input loop calls sendMessage with a line of the     *)
(* user or adds a file as context, the server answers every request with   *)
(* a failure or a body, and the tools of a batch run one after the other.  *)

UserTexts ==
    {<<"h", "i">>, <<"g", "o">>}

FileContext ==
    <<"f", "i", "l", "e">>

SystemPrompts ==
    {<<>>, <<"s", "y", "s">>}

ToolCallsReason ==
    <<"t", "o", "o", "l", "_", "c", "a", "l", "l", "s">>

\* a chunk of text
TextLine(content) == Line("chunk", <<Choice(content, <<>>, StopReason)>>)

\* a native run_command call with the arguments {} in two fragments
NativeLines ==
    <<Line("chunk", <<Choice(<<>>, <<Fragment(0, <<"x">>, RunCommandName, <<"{">>)>>, <<>>)>>),
      Line("chunk", <<Choice(<<>>, <<Fragment(0, <<>>, <<>>, <<"}">>)>>, ToolCallsReason)>>)>>

TaggedLine == TextLine(Render(<<Segment("tagged", <<"a">>)>>))

RawLine == TextLine(Render(<<Segment("raw", <<"a">>)>>))

\* the streamed bodies: prose, a native call, a call in the text in either
\* form, a native call and one in the text
ChatBodies ==
    {<<TextLine(PlainText)>>, NativeLines, <<TaggedLine>>, <<RawLine>>,
     NativeLines \o <<TaggedLine>>}

StreamResponses ==
    {Response("stream", r) :
        r \in UNION {StreamResults(b, f) : b \in ChatBodies, f \in BOOLEAN}}

MessageResponses ==
    {Response("decode", NoResult),
     Response("message", [NoResult EXCEPT !.Content = PlainText])}

\* what the server can do with the request in flight
Responses(pc) ==
    {Response("transport", NoResult), Response("status", NoResult)}
    \cup (IF pc = "context" THEN MessageResponses ELSE StreamResponses)

ChatInit ==
    /\ history = <<>>
    /\ systemPrompt \in SystemPrompts
    /\ userInterrupts \in BOOLEAN
    /\ requestNum = 0
    /\ reqMessages = <<>>
    /\ smPc = "prompt"
    /\ result = NoResult
    /\ tcPos = 0
    /\ preHistory = <<>>
    /\ userText = <<>>
    /\ callErr = "none"
    /\ retry = FALSE
    /\ ExtractIdle
    /\ ParseIdle
    /\ StreamIdle
    /\ ToolsIdle

\* c.client.Chat(msg, ...) to the request being sent: client.go lines 360-415
ChatCall(msg, pc) ==
    /\ requestNum < MaxRequests
    /\ preHistory' = history
    /\ userText' = msg
    /\ retry' = (callErr = "Chat" /\ msg = userText)
    /\ history' = Chat(history, systemPrompt, msg)
    /\ reqMessages' = history'
    /\ requestNum' = requestNum + 1
    /\ smPc' = pc
    /\ callErr' = "none"
    /\ result' = NoResult
    /\ tcPos' = 0
    /\ UNCHANGED <<systemPrompt, userInterrupts, exVars, tlVars, ptVars, stVars>>

\* the input loop reads a line: sendMessage(line)
SendMessage ==
    /\ smPc = "prompt"
    /\ \E msg \in UserTexts : ChatCall(msg, "chat")

\* addFileContext: Chat without streaming, the result dropped
AddFileContext ==
    /\ smPc = "prompt"
    /\ ChatCall(FileContext, "context")

\* the client returns an error: sendMessage prints it and returns
ErrorStep(out) ==
    /\ out.err
    /\ history' = out.history
    /\ callErr' = IF smPc = "continue" THEN "Continue" ELSE "Chat"
    /\ smPc' = "prompt"
    /\ result' = NoResult
    /\ tcPos' = 0
    /\ UNCHANGED <<systemPrompt, userInterrupts, requestNum, reqMessages, preHistory,
                   userText, retry, exVars, tlVars, ptVars, stVars>>

ClientError ==
    /\ smPc \in {"chat", "continue", "context"}
    /\ \E resp \in Responses(smPc) : ErrorStep(sendRequest(history, resp))

\* sendMessage after a result: the batch to run, if there is one (a batch is
\* answered only while another request may be sent)
Orchestrate(res) ==
    /\ Len(res.ToolCalls) > 0 => requestNum < MaxRequests
    /\ result' = res
    /\ smPc' = IF Len(res.ToolCalls) > 0 THEN "tools" ELSE "prompt"
    /\ tcPos' = IF Len(res.ToolCalls) > 0 THEN 1 ELSE 0

ResultStep(out) ==
    /\ ~out.err
    /\ history' = out.history
    /\ callErr' = "none"
    /\ IF smPc = "context"
       THEN result' = NoResult /\ smPc' = "prompt" /\ tcPos' = 0
       ELSE Orchestrate(MergeTextCalls(out.res))
    /\ UNCHANGED <<systemPrompt, userInterrupts, requestNum, reqMessages, preHistory,
                   userText, retry, exVars, tlVars, ptVars, stVars>>

\* the client returns a result
ClientResult ==
    /\ smPc \in {"chat", "continue", "context"}
    /\ \E resp \in Responses(smPc) : ResultStep(sendRequest(history, resp))

\* chat.go lines 1564-1601 for one call of the batch: h is the history after
\* AddToolResult; after a failure or the last call, the continuation is sent
\* the range running to its end whatever the results
BatchRunsOut(failed, pos, n) == pos = n

\* sendMessage, lines 1564-1577: the range over result.ToolCalls ends after
\* the call at pos of n, by the break or because it was the last
BatchEnds(failed, pos, n) == failed \/ pos = n

ToolStep(h, failed) ==
    /\ IF BatchEnds(failed, tcPos, Len(result.ToolCalls))
       THEN /\ history' = FailInterrupt(h, failed, userInterrupts)
            /\ result' = IF failed THEN [result EXCEPT !.ToolCalls = <<>>] ELSE result
            /\ requestNum' = requestNum + 1
            /\ reqMessages' = history'
            /\ smPc' = "continue"
            /\ tcPos' = 0
       ELSE /\ history' = h
            /\ tcPos' = tcPos + 1
            /\ UNCHANGED <<result, requestNum, reqMessages, smPc>>
    /\ UNCHANGED <<systemPrompt, userInterrupts, preHistory, userText, callErr, retry,
                   exVars, tlVars, ptVars, stVars>>

ExecuteTool ==
    /\ smPc = "tools"
    /\ \E toolResult \in ToolResults(result.ToolCalls[tcPos]), pending \in BOOLEAN :
          ToolStep(AddToolResult(ExecuteInterrupt(history, result.ToolCalls[tcPos],
                                                  toolResult, pending, userInterrupts),
                                 result.ToolCalls[tcPos].ID, toolResult),
                   Contains(toolResult, CommandFailed))

ChatNext == SendMessage \/ AddFileContext \/ ClientError \/ ClientResult \/ ExecuteTool

SpecChat == ChatInit /\ [][ChatNext]_vars

-----------------------------------------------------------------------------
(* The client driven through its exported methods in any order: what any   *)
(* caller of the package can make of the history.  smPc is "prompt" while  *)
(* no request is in flight.                                                *)

\* the streamed bodies of these conversations: prose, a native call
ClientBodies == {<<TextLine(PlainText)>>, NativeLines}

ClientResponses ==
    {Response("transport", NoResult), Response("status", NoResult)}
    \cup {Response("stream", r) :
             r \in UNION {StreamResults(b, f) : b \in ClientBodies, f \in BOOLEAN}}

ClientInit ==
    /\ history = <<>>
    /\ systemPrompt \in SystemPrompts
    /\ userInterrupts = FALSE
    /\ requestNum = 0
    /\ reqMessages = <<>>
    /\ smPc = "prompt"
    /\ result = NoResult
    /\ tcPos = 0
    /\ preHistory = <<>>
    /\ userText = <<>>
    /\ callErr = "none"
    /\ retry = FALSE
    /\ ExtractIdle
    /\ ParseIdle
    /\ StreamIdle
    /\ ToolsIdle

\* c.Chat(msg, true, ...) to the request being sent
ApiChat ==
    /\ smPc = "prompt"
    /\ Len(history) < MaxHistory
    /\ \E msg \in UserTexts : ChatCall(msg, "chat")

\* c.ContinueWithToolResults(true, ...) to the request being sent: lines
\* 379-415, sendRequest with the history as it stands
ApiContinue ==
    /\ smPc = "prompt"
    /\ requestNum < MaxRequests
    /\ requestNum' = requestNum + 1
    /\ reqMessages' = history
    /\ smPc' = "continue"
    /\ callErr' = "none"
    /\ UNCHANGED <<history, systemPrompt, userInterrupts, result, tcPos, preHistory,
                   userText, retry, exVars, tlVars, ptVars, stVars>>

\* sendRequest returns, with an error or a result
ApiReturn ==
    /\ smPc \in {"chat", "continue"}
    /\ \E resp \in ClientResponses :
          /\ history' = sendRequest(history, resp).history
          /\ callErr' = IF ~sendRequest(history, resp).err THEN "none"
                        ELSE IF smPc = "chat" THEN "Chat" ELSE "Continue"
    /\ smPc' = "prompt"
    /\ UNCHANGED <<systemPrompt, userInterrupts, requestNum, reqMessages, result, tcPos,
                   preHistory, userText, retry, exVars, tlVars, ptVars, stVars>>

\* c.AddToolResult(id, result) and c.AddUserInterrupt(msg)
ApiAddMessage ==
    /\ smPc = "prompt"
    /\ Len(history) < MaxHistory
    /\ \/ history' = AddToolResult(history, <<"x">>, CommandSucceeded)
       \/ history' = AddUserInterrupt(history, InterruptStop)
    /\ UNCHANGED <<systemPrompt, userInterrupts, requestNum, reqMessages, smPc, result,
                   tcPos, preHistory, userText, callErr, retry, exVars, tlVars, ptVars, stVars>>

\* c.ClearHistory()
ApiClearHistory ==
    /\ smPc = "prompt"
    /\ history # <<>>
    /\ history' = ClearHistory(history)
    /\ UNCHANGED <<systemPrompt, userInterrupts, requestNum, reqMessages, smPc, result,
                   tcPos, preHistory, userText, callErr, retry, exVars, tlVars, ptVars, stVars>>

ClientNext == ApiChat \/ ApiContinue \/ ApiReturn \/ ApiAddMessage \/ ApiClearHistory

SpecClient == ClientInit /\ [][ClientNext]_vars

-----------------------------------------------------------------------------
(* The gate under every permission table, with and without a terminal,     *)
(* the /auto and /permissions commands of the terminal between tool calls. *)

\* the lines typed at the prompt
Answers ==
    {<<"y">>,
     <<"Y", "E", "S">>,
     <<" ", "a", " ">>,
     <<"A", "l", "w", "a", "y", "s">>,
     <<"!">>,
     <<"n", "e", "v", "e", "r">>,
     <<"n">>,
     <<>>,
     <<"m", "a", "y", "b", "e">>}

Readlines == {[line |-> a, err |-> FALSE] : a \in Answers} \cup {[line |-> <<>>, err |-> TRUE]}

\* the tables of a configuration file over the three tools
Tables == UNION {[D -> Permissions] : D \in SUBSET (GatedTools \cup UngatedTools)}

\* New (interactive, autoExec false) and NewNonInteractive(cfg, autoExec)
GateInit ==
    /\ rl \in BOOLEAN
    /\ autoExec \in (IF rl THEN {FALSE} ELSE BOOLEAN)
    /\ toolPermissions \in Tables
    /\ gateLog = NoGate
    /\ RecoverIdle
    /\ TodoIdle
    /\ KeysIdle
    /\ ExtractIdle
    /\ ParseIdle
    /\ StreamIdle
    /\ ChatIdle

\* a tool call of the model's reply, through executeTool
ExecuteToolCall ==
    /\ \E name \in ToolNames, read \in Readlines :
          /\ gateLog' = executeTool(name, autoExec, rl, toolPermissions, read)
          /\ toolPermissions' = gateLog'.after
    /\ UNCHANGED <<autoExec, rl, rcVars, tfVars, klVars, exVars, ptVars, stVars, chVars>>

\* the /auto command
AutoCommand ==
    /\ rl
    /\ autoExec' = ~autoExec
    /\ gateLog' = NoGate
    /\ UNCHANGED <<rl, toolPermissions, rcVars, tfVars, klVars, exVars, ptVars, stVars, chVars>>

\* /permissions set <tool> <permission>
PermissionsSet ==
    /\ rl
    /\ \E tool \in GatedTools \cup UngatedTools, perm \in Permissions :
          toolPermissions' = SetToolPermission(toolPermissions, tool, perm)
    /\ gateLog' = NoGate
    /\ UNCHANGED <<autoExec, rl, rcVars, tfVars, klVars, exVars, ptVars, stVars, chVars>>

\* /permissions reset <tool> and /permissions reset
PermissionsReset ==
    /\ rl
    /\ \/ \E tool \in GatedTools \cup UngatedTools :
             toolPermissions' = SetToolPermission(toolPermissions, tool, "ask")
       \/ toolPermissions' = <<>>
    /\ gateLog' = NoGate
    /\ UNCHANGED <<autoExec, rl, rcVars, tfVars, klVars, exVars, ptVars, stVars, chVars>>

GateNext == ExecuteToolCall \/ AutoCommand \/ PermissionsSet \/ PermissionsReset

SpecGate == GateInit /\ [][GateNext]_vars

-----------------------------------------------------------------------------
(* A run_command call that the gate approved: the executor returns any     *)
(* exit code, stdout and stderr, and executeTool recovers.                 *)

\* lines of a command's stderr: the messages getFixCommand and
\* isUnfixableByRerun know, and one they do not
ErrLines ==
    {<<"g", "o", ".", "m", "o", "d", " ", "f", "i", "l", "e", " ", "n", "o", "t", " ", "f", "o", "u", "n", "d">>,
     <<"m", "i", "s", "s", "i", "n", "g", " ", "g", "o", ".", "s", "u", "m", " ", "e", "n", "t", "r", "y">>,
     <<"n", "o", " ", "r", "e", "q", "u", "i", "r", "e", "d", " ", "m", "o", "d", "u", "l", "e", " ", "p", "r", "o", "v", "i", "d", "e", "s", " ", "x">>,
     <<"M", "o", "d", "u", "l", "e", "N", "o", "t", "F", "o", "u", "n", "d", "E", "r", "r", "o", "r", ":", " ", "N", "o", " ", "m", "o", "d", "u", "l", "e", " ", "n", "a", "m", "e", "d", " ", "'", "f", "o", "o", "'">>,
     <<"C", "a", "n", "n", "o", "t", " ", "f", "i", "n", "d", " ", "m", "o", "d", "u", "l", "e">>,
     <<"n", "o", " ", "m", "a", "t", "c", "h", "i", "n", "g", " ", "v", "e", "r", "s", "i", "o", "n", "s">>,
     <<"b", "o", "o", "m">>}

RECURSIVE JoinLines(_)
\* the lines, "\n" between them
JoinLines(lines) ==
    IF Len(lines) = 0 THEN <<>>
    ELSE IF Len(lines) = 1 THEN lines[1]
    ELSE lines[1] \o <<"\n">> \o JoinLines(Tail(lines))

Stderrs == {JoinLines(q) : q \in SeqsUpTo(ErrLines, MaxErrLines)}

Stdouts ==
    {<<>>,
     <<"m", "i", "s", "s", "i", "n", "g", " ", "g", "o", ".", "s", "u", "m", " ", "e", "n", "t", "r", "y">>,
     <<"n", "o", " ", "m", "a", "t", "c", "h", "i", "n", "g", " ", "v", "e", "r", "s", "i", "o", "n", "s">>}

ExitCodes == {0, 1}

GoRun ==
    <<"g", "o", " ", "r", "u", "n", " ", ".">>

Commands == {GoRun}

\* the todo file before the call: empty; the re-run of the command pending;
\* an older fix pending behind a completed item
OldTodos ==
    {<<>>,
     <<TodoItem(ReRunPrefix \o GoRun, "pending")>>,
     <<TodoItem(<<"o", "l", "d">>, "completed"), TodoItem(RunPrefix \o GoModTidy, "pending"),
       TodoItem(<<"l", "a", "t", "e", "r">>, "in_progress")>>}

RecoverInit ==
    /\ todoItems \in OldTodos
    /\ rcCommand \in Commands
    /\ rcRun = NoRun
    /\ rcReturn = <<>>
    /\ rcBefore = todoItems
    /\ rcPc = "call"
    /\ rcRuns = 0
    /\ rcCancelled = FALSE
    /\ rcLog = <<>>
    /\ history = <<>>
    /\ systemPrompt = <<>>
    /\ userInterrupts \in BOOLEAN
    /\ requestNum = 0
    /\ reqMessages = <<>>
    /\ smPc = "idle"
    /\ result = NoResult
    /\ tcPos = 0
    /\ preHistory = <<>>
    /\ userText = <<>>
    /\ callErr = "none"
    /\ retry = FALSE
    /\ GateIdle
    /\ TodoIdle
    /\ KeysIdle
    /\ ExtractIdle
    /\ ParseIdle
    /\ StreamIdle

\* c.exec.Run(a.Command) returns
ExecRun ==
    /\ rcPc = "call"
    /\ \E out \in Stdouts, err \in Stderrs, code \in ExitCodes : rcRun' = Run(out, err, code)
    /\ rcPc' = "ran"
    /\ rcRuns' = rcRuns + 1
    /\ UNCHANGED <<todoItems, rcCommand, rcReturn, rcBefore, rcCancelled, rcLog, gtVars, tfVars, klVars,
                   exVars, ptVars, stVars, chVars>>

\* the rest of the run_command case
\* The history the recovery properties read: a failed call starts it anew and
\* the successful calls after it extend it.
SucceededRun(r) == Success(r) /\ ~stderrHasError(r.Error)

LogEntry(command, r, items) ==
    [command |-> command,
     ok |-> SucceededRun(r),
     pending |-> [i \in 1..Len(GetPending(items)) |-> GetPending(items)[i].Content]]

RunStep(ran) ==
    /\ todoItems' = ran.items
    /\ rcReturn' = ran.ret
    /\ history' = IF ran.interrupt # <<>> THEN AddUserInterrupt(history, ran.interrupt)
                  ELSE history
    /\ rcPc' = "done"
    /\ rcLog' = IF ~SucceededRun(rcRun) THEN <<LogEntry(rcCommand, rcRun, ran.items)>>
                 ELSE IF rcLog = <<>> THEN <<>>
                 ELSE Append(rcLog, LogEntry(rcCommand, rcRun, ran.items))
    /\ UNCHANGED <<rcCommand, rcRun, rcBefore, rcRuns, rcCancelled, systemPrompt,
                   userInterrupts, requestNum,
                   reqMessages, smPc, result, tcPos, preHistory, userText, callErr, retry,
                   gtVars, tfVars, klVars, exVars, ptVars, stVars>>

\* lines 1657-1685
RunSucceeded ==
    /\ rcPc = "ran"
    /\ Success(rcRun) /\ ~stderrHasError(rcRun.Error)
    /\ RunStep(runCommand(todoItems, rcCommand, rcRun, userInterrupts))

\* lines 1687-1742
RunFailed ==
    /\ rcPc = "ran"
    /\ ~(Success(rcRun) /\ ~stderrHasError(rcRun.Error))
    /\ RunStep(runCommand(todoItems, rcCommand, rcRun, userInterrupts))

RecoverNext == ExecRun \/ RunSucceeded \/ RunFailed

SpecRecover == RecoverInit /\ [][RecoverNext]_vars

-----------------------------------------------------------------------------
(* The extractor's contract, stated on positions instead of a scan: a      *)
(* character is inside a string when an odd number of string-delimiting    *)
(* quotes precede it, and a quote delimits unless it is inside a string    *)
(* and preceded by an odd run of backslashes.                              *)

\* the number of consecutive backslashes that end just before index j
RECURSIVE BackslashRun(_, _, _)
BackslashRun(s, start, j) ==
    IF j > start /\ s[j] = "\\" THEN 1 + BackslashRun(s, start, j - 1) ELSE 0

RECURSIVE InsideString(_, _, _)
\* whether the character at index j lies inside a double-quoted string
InsideString(s, start, j) ==
    LET delimiting == {q \in start..(j - 1) :
                          /\ s[q + 1] = "\""
                          /\ ~(/\ InsideString(s, start, q)
                               /\ BackslashRun(s, start, q) % 2 = 1)}
    IN Cardinality(delimiting) % 2 = 1

\* the brace depth after the character at index j
BraceDepth(s, start, j) ==
    Cardinality({k \in start..j : s[k + 1] = "{" /\ ~InsideString(s, start, k)})
    - Cardinality({k \in start..j : s[k + 1] = "}" /\ ~InsideString(s, start, k)})

\* the indexes of the closing braces that bring the depth back to zero
ClosingBraces(s, start) ==
    {i \in start..(Len(s) - 1) :
        /\ s[i + 1] = "}"
        /\ ~InsideString(s, start, i)
        /\ BraceDepth(s, start, i) = 0}

\* what the contract promises for (s, start)
MatchingSpan(s, start) ==
    IF start >= Len(s) \/ s[start + 1] # "{" \/ ClosingBraces(s, start) = {}
    THEN NotFound
    ELSE LET i == CHOOSE m \in ClosingBraces(s, start) :
                      \A n \in ClosingBraces(s, start) : m <= n
         IN [str |-> Slice(s, start, i + 1), end |-> i + 1]

\* C1: extractJSON(s, start) returns the span from start through the '}' that
\* brings the brace depth back to zero and the index just past it, braces inside
\* double-quoted strings not counted and an escaped quote not ending its string;
\* it returns ("", -1) when start is out of range, s[start] is not '{', or the
\* string ends before the depth returns to zero.
C1_ExtractContract ==
    exPc = "done" => exResult = MatchingSpan(exS, exStart)

\* a span is returned whose string value holds an escaped quote
C1_Witness ==
    /\ exPc = "done"
    /\ exResult.end = Len(exS)
    /\ exResult.str = exS
    /\ \E q \in 1..(Len(exS) - 1) :
          /\ exS[q + 1] = "\""
          /\ InsideString(exS, exStart, q)
          /\ BackslashRun(exS, exStart, q) % 2 = 1

-----------------------------------------------------------------------------
(* The text parser's contracts, on the rendered inputs of SpecParse.        *)

\* the positions of the segments of these kinds
SegmentsOf(segs, kinds) == {k \in 1..Len(segs) : segs[k].kind \in kinds}

\* the string that the arguments of a recovered write_file call decode to
DecodedContent(call) == StringField(call.Arguments, ContentKey)

\* C2: a content encoded as a JSON string value in the arguments of a tagged
\* tool call, alone in the text, comes back as exactly one tool call whose
\* arguments decode to that content, whatever the content holds.
C2_TaggedRoundTrip ==
    (ptPc = "done" /\ Len(ptSegs) = 1 /\ ptSegs[1].kind = "tagged")
        => /\ Len(toolCalls) = 1
           /\ toolCalls[1].Name = WriteFileName
           /\ DecodedContent(toolCalls[1]) = [err |-> FALSE, value |-> ptSegs[1].content]

\* C3: a text with k well-formed tool calls, tagged or raw, yields exactly k
\* tool calls, and none of their spans is left in the returned text.
C3_OnePerWellFormed ==
    ptPc = "done"
        => /\ Len(toolCalls) = Cardinality(SegmentsOf(ptSegs, WellFormedKinds))
           /\ \A k \in SegmentsOf(ptSegs, WellFormedKinds) :
                 ~Contains(cleanedText, SegmentText(ptSegs[k]))

\* C4: a malformed occurrence, tagged or raw, yields no tool call and its
\* text is absent from the returned text.
C4_MalformedRemoved ==
    ptPc = "done"
        => /\ Len(toolCalls) <= Cardinality(SegmentsOf(ptSegs, WellFormedKinds))
           /\ \A k \in SegmentsOf(ptSegs, MalformedKinds) :
                 ~Contains(cleanedText, SegmentText(ptSegs[k]))

-----------------------------------------------------------------------------
(* The stream reader's contracts, on the bodies of SpecStream.              *)

\* the number of lines the loop reads before it breaks at [DONE]
ScannedCount(lines) ==
    IF \E k \in 1..Len(lines) : lines[k].kind = "done"
    THEN Min({k \in 1..Len(lines) : lines[k].kind = "done"}) - 1
    ELSE Len(lines)

\* the tool-call fragments a line carries
DeltaCalls(line) ==
    IF line.kind = "chunk" /\ Len(line.choices) > 0 THEN line.choices[1].ToolCalls
    ELSE <<>>

\* the fragments of a body, in stream order
AllFragments(lines) == Concat([k \in 1..ScannedCount(lines) |-> DeltaCalls(lines[k])])

\* the argument text that the fragments at stream index idx carry, in order
ArgumentsFor(frs, idx) ==
    Concat([k \in 1..Len(frs) |-> IF frs[k].Index = idx THEN frs[k].Arguments ELSE <<>>])

\* the body of one record that carries the whole argument text of idx
SingleRecord(frs, idx) ==
    <<Line("chunk", <<Choice(<<>>, <<Fragment(idx, <<>>, <<"f">>, ArgumentsFor(frs, idx))>>,
                             <<>>)>>)>>

\* the arguments reassembled from that body
SingleRecordArguments(frs, idx) ==
    StreamScan(StreamLocals(<<>>, <<>>, <<>>, FALSE), SingleRecord(frs, idx), 1).calls[idx].Arguments

\* C5: the arguments of each returned tool call are those obtained from one
\* record carrying all the argument text of its stream index, however the
\* text was split over records, and there is one call per stream index.
C5_Reassembly ==
    stPc = "done"
        => /\ {stResult.ToolCalls[i].Index : i \in 1..Len(stResult.ToolCalls)}
                 = {f.Index : f \in {AllFragments(stLines)[k] : k \in 1..Len(AllFragments(stLines))}}
           /\ Len(stResult.ToolCalls) = Cardinality(DOMAIN toolCallsMap)
           /\ \A i \in 1..Len(stResult.ToolCalls) :
                 stResult.ToolCalls[i].Arguments
                     = SingleRecordArguments(AllFragments(stLines), stResult.ToolCalls[i].Index)

\* two calls are returned, one of them reassembled from fragments of two records
C5_Witness ==
    /\ stPc = "done"
    /\ Len(stResult.ToolCalls) = 2
    /\ \E i \in 1..2 : stResult.ToolCalls[i].Arguments = <<"{", "}">>
    /\ \E j, k \in 1..Len(stLines) :
          /\ j < k
          /\ DeltaCalls(stLines[j]) # <<>>
          /\ DeltaCalls(stLines[k]) # <<>>
          /\ DeltaCalls(stLines[j])[1].Index = DeltaCalls(stLines[k])[1].Index

\* C6: the returned tool calls are in ascending order of stream index.
C6_StreamOrder ==
    stPc = "done"
        => \A i, j \in 1..Len(stResult.ToolCalls) :
              i < j => stResult.ToolCalls[i].Index < stResult.ToolCalls[j].Index

\* the body without the lines that the loop skips
Kept(lines) == SelectSeq(lines, LAMBDA l : l.kind \notin {"other", "bad"})

-----------------------------------------------------------------------------
(* The conversation's contracts, on the behaviours of SpecChat.             *)

\* the IDs of the tool calls that the assistant messages before position k carry
AnnouncedIds(h, k) ==
    UNION {{h[j].ToolCalls[i].ID : i \in 1..Len(h[j].ToolCalls)} :
              j \in {m \in 1..(k - 1) : h[m].Role = "assistant"}}

\* C8: each tool message of the history carries the ID of a tool call of an
\* earlier assistant message, also when the call was recovered from text.
C8_ToolIdsAnnounced ==
    \A k \in 1..Len(history) :
        history[k].Role = "tool" => history[k].ToolCallID \in AnnouncedIds(history, k)

\* the messages that a Chat call for msg adds to the history h
ChatAdds(h, msg) ==
    (IF h = <<>> /\ systemPrompt # <<>>
     THEN <<Message("system", systemPrompt \o <<"\n", "\n">> \o ErrorRules, <<>>, <<>>)>>
     ELSE <<>>)
    \o <<Message("user", msg, <<>>, <<>>)>>

\* C9: when the request of a Chat call fails, Chat returns an error and the
\* history is the one before the call, then the system prompt if the history
\* was empty and a prompt is configured, then the user message: no assistant
\* message is appended and nothing is removed or changed.
C9_FailedChatHistory ==
    /\ callErr = "Chat" => history = preHistory \o ChatAdds(preHistory, userText)
    /\ \A resp \in Responses(smPc) :
          (smPc \in {"chat", "context"}
             /\ (resp.kind \in {"transport", "status", "decode"} \/ resp.res.err))
          => /\ sendRequest(history, resp).err
             /\ sendRequest(history, resp).history = history

\* a Chat call has failed after an earlier turn went through
C9_Witness ==
    /\ callErr = "Chat"
    /\ smPc = "prompt"
    /\ \E k \in 1..Len(preHistory) : preHistory[k].Role = "assistant"
    /\ history[Len(history)] = Message("user", userText, <<>>, <<>>)

\* the messages of h after its last assistant message
SinceLastAssistant(h) ==
    LET a == {k \in 1..Len(h) : h[k].Role = "assistant"}
    IN SubSeq(h, (IF a = {} THEN 0 ELSE CHOOSE k \in a : \A m \in a : m <= k) + 1, Len(h))

\* how many of the messages of h are the user message msg
UserCount(h, msg) ==
    Cardinality({k \in 1..Len(h) : h[k] = Message("user", msg, <<>>, <<>>)})

\* C10: when the turn of a failed Chat call is tried again, the request in
\* flight and the history hold exactly one user message with its text since
\* the last assistant message.
C10_RetryNoDuplicate ==
    (smPc = "chat" /\ retry)
        => /\ UserCount(SinceLastAssistant(history), userText) = 1
           /\ UserCount(SinceLastAssistant(reqMessages), userText) = 1

-----------------------------------------------------------------------------
(* The client's contracts, on the behaviours of SpecClient.                 *)

\* whether an assistant message of h carries tool calls
ToolCallIssued(h) ==
    \E k \in 1..Len(h) : h[k].Role = "assistant" /\ Len(h[k].ToolCalls) > 0

\* C11: ContinueWithToolResults sends no request when no assistant message
\* with tool calls was ever issued: no request of it is in flight then.
C11_ContinueNeedsCalls ==
    smPc = "continue" => ToolCallIssued(history)

\* the positions of the system messages of h
SystemAt(h) == {k \in 1..Len(h) : h[k].Role = "system"}

\* C12: the history has at most one system message, at index 0; a step adds
\* one exactly when it is a Chat call on an empty history with a system
\* prompt configured (also after ClearHistory), and no other step adds one.
C12_SystemPromptOnce ==
    /\ [](SystemAt(history) \subseteq {1})
    /\ [][(SystemAt(history') # {} /\ SystemAt(history) = {})
             <=> (smPc = "prompt" /\ smPc' = "chat" /\ history = <<>>
                    /\ systemPrompt # <<>>)]_vars

\* a Chat call inserts the system prompt again after ClearHistory
C12_Witness ==
    /\ smPc = "chat"
    /\ preHistory = <<>>
    /\ requestNum > 1
    /\ Len(history) = 2
    /\ history[1].Role = "system"

-----------------------------------------------------------------------------
(* The permission gate's contracts, on the behaviours of SpecGate.  gateLog *)
(* is the executeTool call that has just returned.                         *)

\* C13: with auto-execute enabled confirmTool approves every gated tool call
\* without reading the permission table, without prompting and without
\* modifying the table.
C13_AutoApproves ==
    (gateLog.gated /\ gateLog.auto) =>
        /\ gateLog.approved
        /\ gateLog.executed
        /\ ~gateLog.consulted
        /\ ~gateLog.prompted
        /\ ~gateLog.saved
        /\ gateLog.after = gateLog.before

\* auto-execute approves a call of a tool whose entry is never
C13_Witness ==
    /\ gateLog.tool = "run_command"
    /\ gateLog.auto
    /\ GetToolPermission(gateLog.before, "run_command") = "never"
    /\ gateLog.approved

\* C14: a tool call to a tool whose permission-table entry is never produces
\* no executor invocation, for every tool name.
C14_NeverNotDispatched ==
    (gateLog.tool \in DOMAIN gateLog.before /\ gateLog.before[gateLog.tool] = "never")
        => ~gateLog.executed

\* C15: with auto-execute disabled and no readline instance, a tool call
\* whose permission is ask (absent entries included) is denied: the executor
\* is not invoked and the permission table is unchanged.
C15_AskDeniedWithoutPrompt ==
    (/\ gateLog.tool # "none"
     /\ ~gateLog.auto
     /\ ~gateLog.interactive
     /\ GetToolPermission(gateLog.before, gateLog.tool) = "ask")
        => (~gateLog.executed /\ gateLog.after = gateLog.before)

\* the answer of a prompt as confirmTool compares it
Answer == ToLower(TrimSpace(gateLog.read.line))

\* whether the prompt was answered with a remember outcome
Remembered == ~gateLog.read.err /\ Answer \in AlwaysAnswers \cup NeverAnswers

\* the entry a remember outcome writes
RememberedEntry == IF Answer \in AlwaysAnswers THEN "always" ELSE "never"

\* C16: when the prompt is consulted, approve-once, deny-once, an
\* unrecognised answer and a read error leave the table unchanged (the last
\* three deny); approve-and-remember sets the tool's entry to always and
\* deny-and-remember to never, each changing no other entry and saving; a
\* tool with an always or never entry is decided without prompting.
C16_PromptOutcomes ==
    /\ [](gateLog.prompted =>
            IF Remembered
            THEN /\ DOMAIN gateLog.after = DOMAIN gateLog.before \cup {gateLog.tool}
                 /\ gateLog.after[gateLog.tool] = RememberedEntry
                 /\ \A u \in DOMAIN gateLog.before \ {gateLog.tool} :
                       gateLog.after[u] = gateLog.before[u]
                 /\ gateLog.saved
                 /\ gateLog.approved = (RememberedEntry = "always")
            ELSE /\ gateLog.after = gateLog.before
                 /\ ~gateLog.saved
                 /\ gateLog.approved = (~gateLog.read.err /\ Answer \in YesAnswers))
    /\ [][(gateLog' # gateLog /\ gateLog.prompted /\ Remembered
             /\ gateLog'.tool = gateLog.tool /\ toolPermissions = gateLog.after
             /\ ~gateLog'.auto)
            => (/\ ~gateLog'.prompted
                /\ gateLog'.approved = (RememberedEntry = "always")
                /\ gateLog'.executed = gateLog'.approved)]_vars

\* a remember outcome that added an entry to a table holding another
C16_Witness ==
    /\ gateLog.prompted
    /\ Remembered
    /\ gateLog.tool = "run_command"
    /\ gateLog.read.line = <<" ", "a", " ">>
    /\ "write_file" \in DOMAIN gateLog.before
    /\ "run_command" \notin DOMAIN gateLog.before
    /\ gateLog.after["run_command"] = "always"

-----------------------------------------------------------------------------
(* Error recovery's contracts, on the behaviours of SpecRecover.            *)

\* a run_command failure has been processed
FailureProcessed == rcPc = "done" /\ ~(Success(rcRun) /\ ~stderrHasError(rcRun.Error))

\* the pending list in GetPending order
Pending == [i \in 1..Len(GetPending(todoItems)) |-> GetPending(todoItems)[i].Content]

\* the fix entry of the failure
FixEntry ==
    (IF fixCmd(rcRun.Error, String(rcRun)).concrete THEN RunPrefix ELSE FixPrefix)
    \o fixCmd(rcRun.Error, String(rcRun)).cmd

FixFound == fixCmd(rcRun.Error, String(rcRun)).cmd # <<>>

Unfixable == isUnfixableByRerun(rcRun.Error) \/ isUnfixableByRerun(String(rcRun))

ReRunEntry == ReRunPrefix \o rcCommand

\* C17: after a run_command failure is processed nothing of the todo file
\* from before the failure remains, and the pending list is [fix, re-run]
\* for a fix and a fixable failure, [fix] for a fix and an unfixable one,
\* [check the command] for no fix and an unfixable one, empty otherwise.
C17_PendingAfterFailure ==
    FailureProcessed =>
        /\ Len(todoItems) = Len(Pending)
        /\ Pending = (IF FixFound /\ ~Unfixable THEN <<FixEntry, ReRunEntry>>
                      ELSE IF FixFound THEN <<FixEntry>>
                      ELSE IF Unfixable THEN <<CheckTheCommand>>
                      ELSE <<>>)

\* a fix and a re-run queued over a todo file that had pending entries
C17_Witness ==
    /\ FailureProcessed
    /\ Len(GetPending(rcBefore)) = 2
    /\ Len(Pending) = 2
    /\ Pending[1] = FixPrefix \o PipInstall

NoMatchingVersions ==
    <<"n", "o", " ", "m", "a", "t", "c", "h", "i", "n", "g", " ", "v", "e",
      "r", "s", "i", "o", "n", "s">>

\* C18 as stated: every failure whose output contains "missing go.sum entry"
\* queues 'Run: go mod tidy' and ends the pending list with the re-run; every
\* failure whose output contains "no matching versions" queues no re-run.
C18_GoSumAnyOutput ==
    FailureProcessed =>
        /\ Contains(String(rcRun), MissingGoSum) =>
              /\ Len(Pending) >= 2
              /\ Pending[1] = RunPrefix \o GoModTidy
              /\ Pending[Len(Pending)] = ReRunEntry
        /\ Contains(String(rcRun), NoMatchingVersions) =>
              \A i \in 1..Len(Pending) : Pending[i] # ReRunEntry

\* the patterns of getFixCommand other than "missing go.sum entry"
OtherFixPatterns ==
    {GoModNotFound, NoRequiredModule, ModuleNotFoundErrorText, NoModuleNamed,
     CannotFindModule}

\* C18: a failure whose output contains "missing go.sum entry", no other
\* pattern of getFixCommand and no unfixable pattern queues 'Run: go mod
\* tidy' and ends the pending list with the re-run; every failure whose
\* output contains "no matching versions" queues no re-run.
C18_GoSumAlone ==
    FailureProcessed =>
        /\ (/\ Contains(String(rcRun), MissingGoSum)
            /\ \A q \in OtherFixPatterns \cup unfixablePatterns : ~Contains(String(rcRun), q))
              => Pending = <<RunPrefix \o GoModTidy, ReRunEntry>>
        /\ Contains(String(rcRun), NoMatchingVersions) =>
              \A i \in 1..Len(Pending) : Pending[i] # ReRunEntry

\* a failure with both kinds of output: the fix without the re-run
C18_Witness ==
    /\ FailureProcessed
    /\ Contains(rcRun.Output, MissingGoSum)
    /\ Contains(rcRun.Error, NoMatchingVersions)
    /\ Pending = <<RunPrefix \o GoModTidy>>

ModuleNotFoundFoo ==
    <<"M", "o", "d", "u", "l", "e", "N", "o", "t", "F", "o", "u", "n", "d",
      "E", "r", "r", "o", "r", ":", " ", "N", "o", " ", "m", "o", "d", "u",
      "l", "e", " ", "n", "a", "m", "e", "d", " ", "'", "f", "o", "o", "'">>

\* the pending list of the scenario as the result message prints it
PipThenReRun ==
    <<"1", ".", " ", "F", "i", "x", ":", " ", "p", "i", "p", " ", "i", "n",
      "s", "t", "a", "l", "l", " ", "<", "m", "i", "s", "s", "i", "n", "g",
      "-", "m", "o", "d", "u", "l", "e", ">", "\n", "2", ".", " ", "T", "h",
      "e", "n", " ", "r", "e", "-", "r", "u", "n", ":", " ">>
    \o rcCommand \o <<"\n">>

ExitOne == <<"(", "e", "x", "i", "t", " ", "1", ")">>

\* what the scenario promises of the result message and the pending list
PipRecovery ==
    /\ Contains(rcReturn, CommandFailed)
    /\ Contains(rcReturn, ExitOne)
    /\ Contains(rcReturn, PipThenReRun)
    /\ Len(Pending) >= 2
    /\ Pending[1] = FixPrefix \o PipInstall
    /\ Pending[2] = ReRunEntry

\* C19 as stated: a run_command that exits with status 1 and whose stderr
\* contains "ModuleNotFoundError: No module named 'foo'" returns a message
\* with the sentinel, the exit code 1 and the pending list 'Fix: pip install
\* <missing-module>', 'Then re-run: <command>'.
C19_PipAnyStderr ==
    (rcPc = "done" /\ rcRun.ExitCode = 1 /\ Contains(rcRun.Error, ModuleNotFoundFoo))
        => PipRecovery

\* the patterns getFixCommand tests before the Python ones
EarlierFixPatterns == {GoModNotFound, MissingGoSum, NoRequiredModule}

\* C19: the same, when stderr holds no pattern that getFixCommand tests
\* before the Python ones and neither stderr nor stdout holds an unfixable
\* pattern.
C19_PipAlone ==
    (/\ rcPc = "done"
     /\ rcRun.ExitCode = 1
     /\ Contains(rcRun.Error, ModuleNotFoundFoo)
     /\ \A q \in EarlierFixPatterns : ~Contains(rcRun.Error, q)
     /\ \A q \in unfixablePatterns : ~Contains(String(rcRun), q))
        => PipRecovery

\* the scenario, with another line on stderr and a go.sum message on stdout
C19_Witness ==
    /\ rcPc = "done"
    /\ rcRun.ExitCode = 1
    /\ rcRun.Error = <<"b", "o", "o", "m", "\n">> \o ModuleNotFoundFoo
    /\ rcRun.Output = MissingGoSum
    /\ PipRecovery

-----------------------------------------------------------------------------
(* Fail-fast, on the behaviours of SpecChat.  Every executed tool call     *)
(* leaves a tool message in the history.                                   *)

\* whether history h holds at k the result of a failed command
FailedAt(h, k) == h[k].Role = "tool" /\ Contains(h[k].Content, CommandFailed)

\* C20: once a tool result of a batch contains the failure sentinel no later
\* tool call of the batch is executed (no tool message follows it before the
\* next assistant message), and the step that records the result sends the
\* continuation request.
C20_FailFast ==
    /\ [](\A k \in 1..Len(history) : \A j \in (k + 1)..Len(history) :
            (FailedAt(history, k) /\ history[j].Role = "tool")
                => \E a \in (k + 1)..(j - 1) : history[a].Role = "assistant")
    /\ [][(\E k \in (Len(history) + 1)..Len(history') : FailedAt(history', k))
            => (/\ smPc' = "continue"
                /\ requestNum' = requestNum + 1
                /\ reqMessages' = history'
                /\ result'.ToolCalls = <<>>)]_vars

\* a batch of a native command and a call in the text, cut after the command
\* failed: the continuation is in flight and one tool message was recorded
C20_Witness ==
    /\ smPc = "continue"
    /\ \E k \in 1..(Len(history) - 1) :
          /\ history[k].Role = "assistant"
          /\ Len(history[k].ToolCalls) = 1
          /\ Contains(history[k].Content, OpenTag)
          /\ FailedAt(history, k + 1)
          /\ \A j \in (k + 2)..Len(history) : history[j].Role = "user"

-----------------------------------------------------------------------------
(* The turn of sendMessage, on the behaviours of SpecChat.                  *)

\* the position of the last assistant message of h, 0 when there is none
LastAssistant(h) ==
    IF \E k \in 1..Len(h) : h[k].Role = "assistant"
    THEN CHOOSE k \in 1..Len(h) :
            /\ h[k].Role = "assistant"
            /\ \A m \in (k + 1)..Len(h) : h[m].Role # "assistant"
    ELSE 0

\* the batch sendMessage made of the assistant message m: its tool calls and
\* those parsed from its text
BatchOf(m) ==
    MergeTextCalls([NoResult EXCEPT !.Content = m.Content, !.ToolCalls = m.ToolCalls]).ToolCalls

\* whether the messages of h after position k hold a tool message for id
Answered(h, k, id) ==
    \E j \in (k + 1)..Len(h) : h[j].Role = "tool" /\ h[j].ToolCallID = id

\* C21: at every continuation request the history in the request holds a
\* tool message for the id of every tool call of the batch that preceded it,
\* also when the batch was cut short by fail-fast.
C21_EveryCallAnswered ==
    (smPc = "continue" /\ LastAssistant(reqMessages) > 0) =>
        \A i \in 1..Len(BatchOf(reqMessages[LastAssistant(reqMessages)])) :
            Answered(reqMessages, LastAssistant(reqMessages),
                     BatchOf(reqMessages[LastAssistant(reqMessages)])[i].ID)

-----------------------------------------------------------------------------
(* Commands run after one another, as the model works through the pending  *)
(* list: each succeeds, fails with a message on stderr, or is cancelled by *)
(* the user while it runs.                                                 *)

PipInstallFoo ==
    <<"p", "i", "p", " ", "i", "n", "s", "t", "a", "l", "l", " ", "f", "o",
      "o">>

GoRunShort ==
    <<"g", "o", " ", "r", "u", "n">>

RemedyCommands == {GoRun, GoRunShort, GoModTidy, PipInstallFoo}

\* what c.exec.Run returns for a command that ran to its end
RemedyResults ==
    {Run(<<>>, <<>>, 0), Run(<<>>, ModuleNotFoundFoo, 1), Run(<<>>, MissingGoSum, 1),
     Run(<<>>, NoMatchingVersions, 1)}

RemedyInit ==
    /\ todoItems \in OldTodos
    /\ rcCommand \in RemedyCommands
    /\ rcRun = NoRun
    /\ rcReturn = <<>>
    /\ rcBefore = todoItems
    /\ rcPc = "call"
    /\ rcRuns = 0
    /\ rcCancelled = FALSE
    /\ rcLog = <<>>
    /\ history = <<>>
    /\ systemPrompt = <<>>
    /\ userInterrupts \in BOOLEAN
    /\ requestNum = 0
    /\ reqMessages = <<>>
    /\ smPc = "idle"
    /\ result = NoResult
    /\ tcPos = 0
    /\ preHistory = <<>>
    /\ userText = <<>>
    /\ callErr = "none"
    /\ retry = FALSE
    /\ GateIdle
    /\ TodoIdle
    /\ KeysIdle
    /\ ExtractIdle
    /\ ParseIdle
    /\ StreamIdle

\* the executor returns r
RemedyReturns(r, cancelled) ==
    /\ rcRun' = r
    /\ rcCancelled' = cancelled
    /\ rcPc' = "ran"
    /\ rcRuns' = rcRuns + 1
    /\ UNCHANGED <<todoItems, rcCommand, rcReturn, rcBefore, rcLog, gtVars, tfVars, klVars, exVars, ptVars,
                   stVars, chVars>>

\* c.exec.Run(a.Command) returns after the command ended
RemedyRun ==
    /\ rcPc = "call"
    /\ \E r \in RemedyResults : RemedyReturns(r, FALSE)

\* the executor returns after the user cancelled the command
RemedyCancel ==
    /\ rcPc = "call"
    /\ \E r \in {RunKilled(<<>>, <<>>), RunWithContextCanceled(<<>>)} : RemedyReturns(r, TRUE)

\* the model's next run_command call
NextCommand ==
    /\ rcPc = "done"
    /\ rcRuns < MaxRuns
    /\ rcCommand' \in RemedyCommands
    /\ rcBefore' = todoItems
    /\ rcPc' = "call"
    /\ UNCHANGED <<todoItems, rcRun, rcReturn, rcRuns, rcCancelled, rcLog, gtVars, tfVars, klVars, exVars,
                   ptVars, stVars, chVars>>

RemedyNext == RemedyRun \/ RemedyCancel \/ RunSucceeded \/ RunFailed \/ NextCommand

SpecRemedy == RemedyInit /\ [][RemedyNext]_vars

-----------------------------------------------------------------------------
(* The pending list while commands run, on the behaviours of SpecRemedy.    *)

\* a step that ends a run_command call that succeeded
SuccessStep ==
    rcPc = "ran" /\ rcPc' = "done" /\ Success(rcRun) /\ ~stderrHasError(rcRun.Error)

\* the position in items of the first pending or in-progress entry
FirstPending(items) ==
    CHOOSE k \in 1..Len(items) :
        /\ items[k].Status \in {"pending", "in_progress"}
        /\ \A m \in 1..(k - 1) : items[m].Status = "completed"

\* the command text of a pending entry
CommandText(content) ==
    IF Len(content) >= 5 /\ SubSeq(content, 1, 5) = <<"R", "u", "n", ":", " ">>
    THEN SubSeq(content, 6, Len(content))
    ELSE IF Len(content) >= 13 /\ SubSeq(content, 1, 13) = ReRunPrefix
    THEN SubSeq(content, 14, Len(content))
    ELSE content

\* whether the first pending entry of items names the command
FirstNames(items, command) ==
    /\ \E k \in 1..Len(items) : items[k].Status \in {"pending", "in_progress"}
    /\ \/ Contains(command, CommandText(items[FirstPending(items)].Content))
       \/ Contains(CommandText(items[FirstPending(items)].Content), command)

GoodNowRun ==
    <<"G", "o", "o", "d", ".", " ", "N", "o", "w", " ", "r", "u", "n", " ",
      "t", "h", "e", " ", "n", "e", "x", "t", " ", "c", "o", "m", "m", "a",
      "n", "d", ":", " ">>

\* C22: when a run_command succeeds and the command text of the first
\* pending entry is contained in, or contains, the command, exactly that
\* entry is marked completed, and the entries that remain are inspected
\* after that (the interrupt names the first of them); when neither
\* containment holds the pending list is unchanged.
C22_PopOnMatch ==
    [][SuccessStep =>
        /\ IF FirstNames(todoItems, rcCommand)
           THEN todoItems' = [i \in 1..Len(todoItems) |->
                                 IF i = FirstPending(todoItems)
                                 THEN TodoItem(todoItems[i].Content, "completed")
                                 ELSE todoItems[i]]
           ELSE todoItems' = todoItems
        /\ history' = IF userInterrupts /\ GetPending(todoItems') # <<>>
                      THEN Append(history,
                                  Message("user",
                                          GoodNowRun \o GetPending(todoItems')[1].Content,
                                          <<>>, <<>>))
                      ELSE history]_vars

\* the fix behind a completed entry was popped and the interrupt names the
\* entry after it
C22_Witness ==
    /\ rcPc = "done"
    /\ rcCommand = GoModTidy
    /\ Success(rcRun)
    /\ Len(rcBefore) = 3
    /\ rcBefore[2].Status = "pending"
    /\ todoItems = [rcBefore EXCEPT ![2].Status = "completed"]
    /\ history # <<>>
    /\ history[Len(history)].Content = GoodNowRun \o <<"l", "a", "t", "e", "r">>

\* the command that remedies a fix entry: the command of a 'Run:' entry, an
\* install of the missing module for the 'Fix:' template
Remedy(entry) ==
    IF entry = FixPrefix \o PipInstall THEN PipInstallFoo ELSE CommandText(entry)

\* C23: after a failure that queued a fix entry and a re-run entry, a
\* successful run of the remedial command and then a successful re-run of
\* the original command leave both entries completed and the pending list
\* empty.
C23_RemediationConsumes ==
    (/\ rcPc = "done"
     /\ Len(rcLog) = 3
     /\ ~rcLog[1].ok
     /\ Len(rcLog[1].pending) = 2
     /\ rcLog[1].pending[2] = ReRunPrefix \o rcLog[1].command
     /\ rcLog[2].ok
     /\ rcLog[2].command = Remedy(rcLog[1].pending[1])
     /\ rcLog[3].ok
     /\ rcLog[3].command = rcLog[1].command)
        => (/\ GetPending(todoItems) = <<>>
            /\ Len(todoItems) = 2
            /\ todoItems[1].Content = rcLog[1].pending[1]
            /\ todoItems[2].Content = rcLog[1].pending[2])


\* C25: when the user cancels a running command the call's result is not
\* treated as a command failure: it carries no failure sentinel (so it does
\* not cut the batch) and the pending list is neither cleared nor rebuilt.
C25_CancelNotFailure ==
    (rcPc = "done" /\ rcCancelled)
        => (/\ ~Contains(rcReturn, CommandFailed)
            /\ todoItems = rcBefore)

------------------------------------------------------------------------------
(* The user turn as a state machine.  The client call returns, with a      *)
(* result or an error (the HTTP client's request ends), and executeTool    *)
(* returns: the two steps sendMessage waits for are taken when they can be.*)

SpecTurn ==
    /\ ChatInit
    /\ [][ChatNext]_vars
    /\ WF_vars(ClientError \/ ClientResult)
    /\ WF_vars(ExecuteTool)

\* the state of the turn that a position of sendMessage stands for
Phase(pc) ==
    IF pc \in {"chat", "continue"} THEN "AwaitingModel"
    ELSE IF pc = "tools" THEN "ExecutingTools"
    ELSE IF pc = "context" THEN "Context"
    ELSE "Idle"

\* the tool calls of the assistant message m, the native ones and those its
\* text holds
CallsOf(m) == Len(m.ToolCalls) + Len(ParseToolCallsFromText(m.Content).toolCalls)

\* the step of sendMessage when the client call returns
ModelAnswers == smPc \in {"chat", "continue"} /\ smPc' # smPc

\* the step of sendMessage when a tool call of the batch returns
ToolReturns == smPc = "tools" /\ (tcPos' # tcPos \/ smPc' # smPc)

\* C24: a user turn goes Idle -> AwaitingModel -> (ExecutingTools ->
\* AwaitingModel)* -> Idle.  It ends exactly when the client returns an error
\* or a response that carries no tool call after the calls of its text are
\* merged; a response with a tool call is followed by the execution of the
\* batch and then one continuation request; and a turn whose model comes to
\* answer without tool calls ends.
C24_TurnMachine ==
    /\ [][(smPc = "prompt" /\ smPc' # "prompt") => smPc' \in {"chat", "context"}]_vars
    /\ [][ModelAnswers =>
            IF callErr' # "none" THEN smPc' = "prompt" /\ requestNum' = requestNum
            ELSE /\ history'[Len(history')].Role = "assistant"
                 /\ IF CallsOf(history'[Len(history')]) = 0
                    THEN smPc' = "prompt"
                    ELSE /\ smPc' = "tools"
                         /\ Len(result'.ToolCalls) = CallsOf(history'[Len(history')])
                         /\ tcPos' = 1
                 /\ requestNum' = requestNum]_vars
    /\ [][ToolReturns =>
            /\ history' # history
            /\ IF smPc' = "tools"
               THEN tcPos' = tcPos + 1 /\ tcPos' <= Len(result.ToolCalls)
                    /\ requestNum' = requestNum
               ELSE /\ smPc' = "continue"
                    /\ requestNum' = requestNum + 1
                    /\ reqMessages' = history'
                    /\ tcPos = Len(result.ToolCalls)
                       \/ \E k \in 1..Len(history') : FailedAt(history', k)]_vars
    /\ (Phase(smPc) \in {"AwaitingModel", "ExecutingTools"}) ~> (Phase(smPc) = "Idle")

\* a turn of three requests: two batches were run and answered, and the
\* third response, without tool calls, ended it
C24_Witness ==
    /\ smPc = "prompt"
    /\ callErr = "none"
    /\ requestNum = 3
    /\ Len(history) >= 6
    /\ history[Len(history)].Role = "assistant"
    /\ CallsOf(history[Len(history)]) = 0
    /\ Cardinality({k \in 1..Len(history) : history[k].Role = "user"}) = 1 + Cardinality({k \in 1..Len(history) : history[k].Role = "user" /\ history[k].Content \in {InterruptNext, InterruptStop}})

------------------------------------------------------------------------------
(* The todo file through the methods of TodoFile, each with the Save that  *)
(* ends it, from the TodoFile NewTodoFile makes in a directory without     *)
(* TODOS.md.                                                               *)

TodoContents == {RunPrefix \o GoModTidy, ReRunPrefix \o GoRun}

\* the index arguments: in range, and out of range on both sides
TodoIndexes == -1..MaxTodos

TodoInit ==
    /\ todoItems = <<>>
    /\ tfFile = NoFile
    /\ KeysIdle
    /\ rcCommand = <<>>
    /\ rcRun = NoRun
    /\ rcReturn = <<>>
    /\ rcBefore = <<>>
    /\ rcPc = "idle"
    /\ rcRuns = 0
    /\ rcCancelled = FALSE
    /\ rcLog = <<>>
    /\ GateIdle
    /\ ExtractIdle
    /\ ParseIdle
    /\ StreamIdle
    /\ ChatIdle

\* a method that leaves items, and has called Save if saved
TodoStep(items, saved) ==
    /\ todoItems' = items
    /\ tfFile' = IF saved THEN Save(items) ELSE tfFile
    /\ UNCHANGED <<rcCommand, rcRun, rcReturn, rcBefore, rcPc, rcRuns, rcCancelled, rcLog,
                   gtVars, klVars, exVars, ptVars, stVars, chVars>>

TodoAdd ==
    /\ Len(todoItems) < MaxTodos
    /\ \E content \in TodoContents :
          TodoStep(AddTodo(todoItems, content), AddTodo(todoItems, content) # todoItems)

TodoSetInProgress ==
    /\ \E index \in TodoIndexes :
          TodoStep(SetInProgress(todoItems, index), index >= 0 /\ index < Len(todoItems))

TodoComplete ==
    /\ \E index \in TodoIndexes :
          TodoStep(Complete(todoItems, index), index >= 0 /\ index < Len(todoItems))

TodoPopFirst ==
    /\ TodoStep(PopFirst(todoItems), GetPending(todoItems) # <<>>)

TodoClear ==
    /\ TodoStep(Clear(todoItems), TRUE)

TodoNext == TodoAdd \/ TodoSetInProgress \/ TodoComplete \/ TodoPopFirst \/ TodoClear

SpecTodo == TodoInit /\ [][TodoNext]_vars

\* C26: after any of AddTodo, SetInProgress, Complete, PopFirst and Clear,
\* a fresh TodoFile that loads the saved file has the pending list that
\* GetPending returns in the running one: the same contents and statuses in
\* the same order.
C26_PendingSurvivesRestart ==
    GetPending(Load(tfFile)) = GetPending(todoItems)

------------------------------------------------------------------------------
(* keylistener.Listener: Start and Stop called from two goroutines, and    *)
(* the readLoop goroutines.  The statements under l.mu are one step, as no *)
(* other caller runs between them; Start gives the mutex up while it waits *)
(* for doneCh.  readLoop reads l.stopCh and l.doneCh without the mutex: a  *)
(* read yields any channel the field has held since the goroutine started. *)

\* what a read of the field by the readLoop g can yield
Seen(held, g) == {held[k] : k \in g.born..Len(held)}

\* close(ch): the second close of a channel panics
CloseChan(ch) ==
    /\ klPanic' = (ch \in klClosed)
    /\ klClosed' = klClosed \cup {ch}

KeysInit ==
    /\ KeysIdle
    /\ GateIdle
    /\ RecoverIdle
    /\ TodoIdle
    /\ ExtractIdle
    /\ ParseIdle
    /\ StreamIdle
    /\ ChatIdle

KeysOthers == UNCHANGED <<gtVars, rcVars, tfVars, exVars, ptVars, stVars, chVars>>

\* Start, lines 68-80: term.MakeRaw fails, or the fields are set and
\* readLoop is started
StartFinish(c) ==
    /\ klCallers' = [klCallers EXCEPT ![c] = [pc |-> "idle", wait |-> NilChan]]
    /\ \E err \in IF Len(klLoops) < MaxStarts THEN BOOLEAN ELSE {TRUE} :
          IF err
          THEN UNCHANGED <<klActive, klOldState, klStops, klDones, klLoops>>
          ELSE /\ klOldState' = TRUE
               /\ klActive' = TRUE
               /\ klStops' = Append(klStops, 2 * Len(klStops))
               /\ klDones' = Append(klDones, 2 * Len(klStops) + 1)
               /\ klLoops' = Append(klLoops, [pc |-> "select", born |-> Len(klStops) + 1])
    /\ UNCHANGED <<klClosed, klPanic>>
    /\ KeysOthers

\* Start, lines 44-66: returns when active; waits for doneCh without the
\* mutex when the previous readLoop has not closed it; goes on otherwise
StartEnter ==
    /\ ~klPanic
    /\ \E c \in Callers :
          /\ klCallers[c].pc = "idle"
          /\ IF klActive
             THEN UNCHANGED vars
             ELSE IF Last(klDones) # NilChan /\ Last(klDones) \notin klClosed
             THEN /\ klCallers' = [klCallers EXCEPT ![c] = [pc |-> "waiting",
                                                            wait |-> Last(klDones)]]
                  /\ UNCHANGED <<klActive, klOldState, klStops, klDones, klClosed, klPanic,
                                 klLoops>>
                  /\ KeysOthers
             ELSE StartFinish(c)

\* Start, lines 59-64: doneCh was closed or the 100 ms passed
StartResume ==
    /\ ~klPanic
    /\ \E c \in Callers :
          /\ klCallers[c].pc = "waiting"
          /\ StartFinish(c)

\* func (l *Listener) Stop
Stop ==
    /\ ~klPanic
    /\ \E c \in Callers :
          /\ klCallers[c].pc = "idle"
          /\ IF ~klActive
             THEN UNCHANGED vars
             ELSE /\ CloseChan(Last(klStops))
                  /\ klOldState' = FALSE
                  /\ klActive' = FALSE
                  /\ UNCHANGED <<klStops, klDones, klLoops, klCallers>>
                  /\ KeysOthers

LoopGoes(i, pc) ==
    /\ klLoops' = [klLoops EXCEPT ![i].pc = pc]
    /\ UNCHANGED <<klActive, klOldState, klStops, klDones, klCallers>>
    /\ KeysOthers

\* readLoop, lines 110-113: the select on l.stopCh
LoopSelect ==
    /\ ~klPanic
    /\ \E i \in 1..Len(klLoops) :
          /\ klLoops[i].pc = "select"
          /\ \E ch \in Seen(klStops, klLoops[i]) :
                LoopGoes(i, IF ch \in klClosed THEN "defer" ELSE "read")
          /\ UNCHANGED <<klClosed, klPanic>>

\* readLoop, lines 114-145: os.Stdin.Read returns, a key or not
LoopRead ==
    /\ ~klPanic
    /\ \E i \in 1..Len(klLoops) :
          /\ klLoops[i].pc = "read"
          /\ \E failed \in BOOLEAN, ch \in Seen(klStops, klLoops[i]) :
                LoopGoes(i, IF failed /\ ch \in klClosed THEN "defer" ELSE "select")
          /\ UNCHANGED <<klClosed, klPanic>>

\* readLoop, lines 101-106: the deferred close of l.doneCh
LoopExit ==
    /\ ~klPanic
    /\ \E i \in 1..Len(klLoops) :
          /\ klLoops[i].pc = "defer"
          /\ \E ch \in Seen(klDones, klLoops[i]) :
                /\ IF ch # NilChan THEN CloseChan(ch) ELSE UNCHANGED <<klClosed, klPanic>>
                /\ LoopGoes(i, "done")

KeysNext == StartEnter \/ StartResume \/ Stop \/ LoopSelect \/ LoopRead \/ LoopExit

SpecKeys == KeysInit /\ [][KeysNext]_vars

\* C27: under every interleaving of Start, Stop and the readLoop goroutines
\* of one Listener no channel is closed more than once: the panic 'close of
\* closed channel' is not reached.
C27_NoDoubleClose == ~klPanic

\* the non-empty ids that the fragments at stream index idx carry, in order
IdsFor(frs, idx) ==
    SelectSeq([k \in 1..Len(frs) |-> IF frs[k].Index = idx THEN frs[k].ID ELSE <<>>],
              LAMBDA id : id # <<>>)

\* the fragments that the line read by this step carries at stream index idx
ReadAt(idx) ==
    SelectSeq(DeltaCalls(stLines[stPos']), LAMBDA f : f.Index = idx)

\* C28: the id of the tool call reassembled for a stream index is the last
\* non-empty id that a fragment with that index carried, or call_<index>
\* when none carried one; a record whose fragments at an index have empty ids
\* leaves the id adopted for that index as it is.
C28_IdAdoption ==
    /\ [](stPc = "done"
            => \A i \in 1..Len(stResult.ToolCalls) :
                  stResult.ToolCalls[i].ID
                      = IF IdsFor(AllFragments(stLines), stResult.ToolCalls[i].Index) = <<>>
                        THEN CallPrefix \o Itoa(stResult.ToolCalls[i].Index)
                        ELSE Last(IdsFor(AllFragments(stLines), stResult.ToolCalls[i].Index)))
    /\ [][stPos' = stPos + 1
            => \A idx \in DOMAIN toolCallsMap :
                  (\A k \in 1..Len(ReadAt(idx)) : ReadAt(idx)[k].ID = <<>>)
                      => toolCallsMap'[idx].ID = toolCallsMap[idx].ID]_vars

\* a call whose stream index carried the id x, then the id y, then a
\* fragment without id: y is returned
C28_Witness ==
    /\ stPc = "done"
    /\ Len(stLines) = 3
    /\ \A k \in 1..3 : Len(DeltaCalls(stLines[k])) = 1 /\ DeltaCalls(stLines[k])[1].Index = 0
    /\ DeltaCalls(stLines[1])[1].ID = <<"x">>
    /\ DeltaCalls(stLines[2])[1].ID = <<"y">>
    /\ DeltaCalls(stLines[3])[1].ID = <<>>
    /\ Len(stResult.ToolCalls) = 1
    /\ stResult.ToolCalls[1].ID = <<"y">>

\* the body up to its first [DONE] line, that line left out
BeforeDone(lines) == SubSeq(lines, 1, ScannedCount(lines))

\* C29: handleStreamResponse stops at the first 'data: [DONE]' line: no line
\* after it is read, and the text, the tool calls and the finish reason are
\* those of the body before it; without the line every line of the body is
\* read, up to the end of the stream, and the result is returned the same way.
C29_StopsAtDone ==
    /\ [][stPos' = stPos + 1 => \A k \in 1..stPos : stLines[k].kind # "done"]_vars
    /\ [](stPc \in {"return", "done"}
            => /\ stPos = IF ScannedCount(stLines) < Len(stLines)
                          THEN ScannedCount(stLines) + 1
                          ELSE Len(stLines)
               /\ StreamLocals(contentBuilder, toolCallsMap, finishReason, FALSE)
                      = StreamScan(StreamLocals(<<>>, <<>>, <<>>, FALSE), BeforeDone(stLines), 1))
    /\ [](stPc = "done"
            => \E r \in StreamResults(BeforeDone(stLines), FALSE) :
                  /\ r.Content = stResult.Content
                  /\ r.ToolCalls = stResult.ToolCalls
                  /\ r.FinishReason = stResult.FinishReason)

\* a record of text and a finish reason follow the [DONE] line and are not
\* in the result
C29_Witness ==
    /\ stPc = "done"
    /\ Len(stLines) = 3
    /\ stLines[1] = Line("chunk", <<Choice(<<"a">>, <<>>, <<>>)>>)
    /\ stLines[2].kind = "done"
    /\ stLines[3] = Line("chunk", <<Choice(<<"a">>, <<>>, <<>>), Choice(<<"b">>, <<>>, StopReason)>>)
    /\ stResult.Content = <<"a">>
    /\ stResult.FinishReason = <<>>

\* the raw match of the name at position n cannot be parsed: extractJSON
\* finds no object at its brace, or the object is no JSON
Unparseable(text, n) ==
    /\ FindNameBrace(text, knownToolNames[n]) # <<>>
    /\ \/ extractJSON(text, FindNameBrace(text, knownToolNames[n])[2] - 1).str = <<>>
       \/ UnmarshalMapFails(extractJSON(text, FindNameBrace(text, knownToolNames[n])[2] - 1).str)

\* the iteration that gave r leaves its loop with the text as it is, or goes
\* round again with a shorter text
Advances(r, text) ==
    IF r.stop THEN r.st.text = text ELSE Len(r.st.text) < Len(text)

\* what bounds the steps ParseToolCallsFromText still takes: the loops not
\* yet left, and the length of the working text
Variant ==
    CASE ptPc = "tagged" -> Len(knownToolNames) + 2 + Len(cleanedText)
      [] ptPc = "raw" -> Len(knownToolNames) - ptName + 2 + Len(cleanedText)
      [] ptPc = "return" -> 1
      [] OTHER -> 0

\* C30: ParseToolCallsFromText returns for every text: an iteration of the
\* tagged loop, and of the raw loop of each tool name, makes the working text
\* shorter or leaves the loop with the text as it is, so that every step
\* lowers a bound on the steps that remain; and a raw match that cannot be
\* parsed ends the scan for its tool name.
C30_ParseTerminates ==
    /\ [](ptPc = "tagged"
            => Advances(TaggedIteration(ParseState(cleanedText, toolCalls, callIndex)),
                        cleanedText))
    /\ [](ptPc = "raw"
            => Advances(RawIteration(ParseState(cleanedText, toolCalls, callIndex),
                                     knownToolNames[ptName]),
                        cleanedText))
    /\ [][ptPc = "tagged"
            => \/ Len(cleanedText') < Len(cleanedText) /\ ptPc' = "tagged"
               \/ cleanedText' = cleanedText /\ ptPc' = "raw"]_vars
    /\ [][ptPc = "raw"
            => \/ Len(cleanedText') < Len(cleanedText) /\ ptName' = ptName /\ ptPc' = "raw"
               \/ cleanedText' = cleanedText /\ ptName' = ptName + 1]_vars
    /\ [][(ptPc = "raw" /\ Unparseable(cleanedText, ptName))
            => cleanedText' = cleanedText /\ toolCalls' = toolCalls /\ ptName' = ptName + 1]_vars
    /\ [][Variant' < Variant /\ Variant' >= 0]_vars

\* the text held a tagged call, which was taken out, and a raw match that
\* cannot be parsed, which ended the scan for read_file and is still there
C30_Witness ==
    /\ ptPc = "done"
    /\ Len(toolCalls) = 1
    /\ \E k \in 1..Len(ptSegs) : ptSegs[k].kind = "tagged"
    /\ \E k \in 1..Len(ptSegs) : ptSegs[k].kind \in {"raw_unbalanced", "raw_invalid"}
    /\ \E n \in 1..Len(knownToolNames) : Unparseable(cleanedText, n)

-----------------------------------------------------------------------------
(* One response on its way into sendMessage: a streamed body with none, one *)
(* or two API-native calls, whose text holds up to MaxSegments segments of  *)
(* prose, tagged calls and raw calls of two tool names.  The client returns *)
(* what handleStreamResponse makes of the body, and sendMessage merges the  *)
(* calls that ParseToolCallsFromText finds in the text.                     *)

MaxSegments == 3

MergeContents == {<<"a">>, <<"b">>}

MergeSegments ==
    {Segment("plain", <<"a">>)}
    \cup {Segment(k, c) : k \in {"tagged", "raw", "raw_run"}, c \in MergeContents}

\* a fragment that opens the call at a stream index, with the id the server
\* gave it, if any
NativeOpen(index, id) ==
    Line("chunk", <<Choice(<<>>, <<Fragment(index, id, RunCommandName, <<"{", "}">>)>>, <<>>)>>)

\* the native calls of a body: none, one with a server-issued id, one or two
\* without an id, one whose server-issued id has the form of a text id or of
\* a generated id
NativeBodies ==
    {<<>>, <<NativeOpen(0, <<"x">>)>>, <<NativeOpen(0, <<>>)>>,
     <<NativeOpen(0, <<>>), NativeOpen(1, <<>>)>>,
     <<NativeOpen(0, TextCallId \o <<"0">>)>>,
     <<NativeOpen(0, GeneratedId(1)), NativeOpen(1, <<>>)>>}

MergeInit ==
    /\ ptSegs \in SeqsUpTo(MergeSegments, MaxSegments)
    /\ stLines \in {n \o <<TextLine(Render(ptSegs))>> : n \in NativeBodies}
    /\ stFail = FALSE
    /\ stPos = 0
    /\ contentBuilder = <<>>
    /\ toolCallsMap = <<>>
    /\ finishReason = <<>>
    /\ scanErr = FALSE
    /\ stResult = NoResult
    /\ stPc = "idle"
    /\ cleanedText = <<>>
    /\ toolCalls = <<>>
    /\ callIndex = 0
    /\ ptName = 0
    /\ ptPc = "idle"
    /\ history = <<>>
    /\ systemPrompt = <<>>
    /\ userInterrupts = FALSE
    /\ requestNum = 0
    /\ reqMessages = <<>>
    /\ smPc = "receive"
    /\ result = NoResult
    /\ tcPos = 0
    /\ preHistory = <<>>
    /\ userText = <<>>
    /\ callErr = "none"
    /\ retry = FALSE
    /\ ExtractIdle
    /\ ToolsIdle

\* client.Chat returns what handleStreamResponse makes of the body
MergeReceive ==
    /\ smPc = "receive"
    /\ stResult' \in StreamResults(stLines, stFail)
    /\ smPc' = "parse"
    /\ UNCHANGED <<stLines, stFail, stPos, contentBuilder, toolCallsMap, finishReason,
                   scanErr, stPc, history, systemPrompt, userInterrupts, requestNum,
                   reqMessages, result, tcPos, preHistory, userText, callErr, retry,
                   exVars, ptVars, tlVars>>

\* chat.go lines 1547-1553
MergeParse ==
    /\ smPc = "parse"
    /\ result' = MergeTextCalls(stResult)
    /\ smPc' = "merged"
    /\ UNCHANGED <<history, systemPrompt, userInterrupts, requestNum, reqMessages,
                   tcPos, preHistory, userText, callErr, retry,
                   exVars, ptVars, stVars, tlVars>>

MergeNext ==
    \/ MergeReceive
    \/ MergeParse

SpecMerge == MergeInit /\ [][MergeNext]_vars

\* the ids of a list of calls
IdsOf(calls) == [i \in 1..Len(calls) |-> calls[i].ID]

\* no element of a sequence occurs twice
Distinct(seq) == \A i, j \in 1..Len(seq) : seq[i] = seq[j] => i = j

\* the calls that sendMessage appended to the native ones
TextCalls == Slice(result.ToolCalls, Len(stResult.ToolCalls), Len(result.ToolCalls))

\* C31: the ids of the text-derived calls of one response are text_call_0,
\* text_call_1, ... in return order, and the merged list of API-native and
\* text-derived calls of the response holds no id twice.
C31_NoDuplicateId ==
    smPc = "merged"
        => /\ \A i \in 1..Len(TextCalls) : TextCalls[i].ID = TextCallId \o Itoa(i - 1)
           /\ Distinct(IdsOf(result.ToolCalls))

\* the part of C31 about the text ids alone
C31_TextIds ==
    smPc = "merged"
        => /\ \A i \in 1..Len(TextCalls) : TextCalls[i].ID = TextCallId \o Itoa(i - 1)
           /\ Distinct(IdsOf(TextCalls))
           /\ \A i \in 1..Len(TextCalls), n \in 0..MaxSegments :
                  TextCalls[i].ID # GeneratedId(n)

\* the body's native call with the server-issued id text_call_0, and a call
\* in the text
C31_Collision ==
    /\ smPc = "merged"
    /\ Len(stResult.ToolCalls) = 1
    /\ Len(TextCalls) > 0
    /\ stResult.ToolCalls[1].ID = TextCalls[1].ID

\* the call that a segment of the text stands for
SegmentCall(seg) ==
    CASE seg.kind = "tagged" ->
            [Name |-> WriteFileName, Arguments |-> WriteFileArguments(seg.content)]
      [] seg.kind = "raw" ->
            [Name |-> ReadFileName, Arguments |-> ReadFileArguments(seg.content)]
      [] seg.kind = "raw_run" ->
            [Name |-> RunCommandName, Arguments |-> RunCommandArguments(seg.content)]

\* the segments of a kind, in their order in the text
OfKind(segs, kind) == SelectSeq(segs, LAMBDA seg : seg.kind = kind)

\* name and arguments of each call of a list
Signatures(calls) ==
    [i \in 1..Len(calls) |-> [Name |-> calls[i].Name, Arguments |-> calls[i].Arguments]]

\* the calls of the text in the order of the claim: tagged ones as in the
\* text, then raw ones of run_command, then raw ones of read_file
ExpectedTextCalls(segs) ==
    LET ordered == OfKind(segs, "tagged") \o OfKind(segs, "raw_run") \o OfKind(segs, "raw")
    IN [i \in 1..Len(ordered) |-> SegmentCall(ordered[i])]

\* C32: the batch is the API-native calls, then the tagged calls in textual
\* order, then the raw calls grouped by tool name in the order of
\* knownToolNames (run_command before read_file), wherever the raw calls
\* stand in the text.
C32_BatchOrder ==
    smPc = "merged"
        => /\ Slice(result.ToolCalls, 0, Len(stResult.ToolCalls)) = stResult.ToolCalls
           /\ Signatures(TextCalls) = ExpectedTextCalls(ptSegs)

\* a native call, and in the text a raw read_file call before a raw
\* run_command call before a tagged call
C32_Witness ==
    /\ smPc = "merged"
    /\ Len(stResult.ToolCalls) > 0
    /\ [k \in 1..Len(ptSegs) |-> ptSegs[k].kind] = <<"raw", "raw_run", "tagged">>
    /\ [k \in 1..Len(TextCalls) |-> TextCalls[k].Name]
           = <<WriteFileName, RunCommandName, ReadFileName>>

-----------------------------------------------------------------------------
(* The batch while it runs, on the behaviours of SpecChat. *)

\* the ids of the tool messages of h behind its last assistant message, in
\* the order of the history
ToolIdsAfter(h) ==
    LET tail == SubSeq(h, LastAssistant(h) + 1, Len(h))
        answers == SelectSeq(tail, LAMBDA msg : msg.Role = "tool")
    IN [i \in 1..Len(answers) |-> answers[i].ToolCallID]

\* the ids of the first n calls of the batch
BatchIds(n) == [i \in 1..n |-> result.ToolCalls[i].ID]

\* C33: the calls of a batch are executed one at a time in list order, and
\* the result of each is in the history as a tool message before the next
\* call of the batch starts: while the call at position tcPos is about to
\* run the history holds the tool messages of the calls before it, in list
\* order, and the step that runs it adds its tool message behind them.
C33_OneAtATime ==
    /\ [](smPc = "tools" =>
            /\ tcPos \in 1..Len(result.ToolCalls)
            /\ ToolIdsAfter(history) = BatchIds(tcPos - 1))
    /\ [][ToolReturns =>
            /\ ToolIdsAfter(history') = BatchIds(tcPos)
            /\ \E k \in 1..Len(history') :
                  /\ history'[k].Role = "tool"
                  /\ history'[k].ToolCallID = result.ToolCalls[tcPos].ID
                  /\ SubSeq(history', 1, k - 1) \in
                         {history, AddUserInterrupt(history, InterruptNext)}]_vars

\* a batch of two calls with different ids, both run, their two tool
\* messages the last of the history in the order of the batch
C33_Witness ==
    /\ smPc = "continue"
    /\ Len(result.ToolCalls) = 2
    /\ result.ToolCalls[1].ID # result.ToolCalls[2].ID
    /\ ToolIdsAfter(history) = BatchIds(2)

-----------------------------------------------------------------------------
(* A batch through the gate, the executor and the todo file: sendMessage's  *)
(* range over result.ToolCalls with executeTool's cases for run_command,    *)
(* write_file and read_file, the result strings as the code formats them.   *)


\* the refusal worded as a failed command
DeclinedCommandFailed ==
    CommandFailed
    \o <<":", " ", "U", "s", "e", "r", " ", "d", "e", "c", "l", "i", "n", "e", "d">>

\* chat.go line 1642
DeclinedCommand ==
    <<"O", "P", "E", "R", "A", "T", "I", "O", "N", " ", "F", "A", "I", "L",
      "E", "D", ":", " ", "U", "s", "e", "r", " ", "d", "e", "c", "l", "i",
      "n", "e", "d", " ", "t", "o", " ", "e", "x", "e", "c", "u", "t", "e",
      " ", "c", "o", "m", "m", "a", "n", "d", ".", " ", "T", "h", "e", " ",
      "c", "o", "m", "m", "a", "n", "d", " ", "w", "a", "s", " ", "N", "O",
      "T", " ", "r", "u", "n", ".">>

\* chat.go line 1924, fileType "file"
DeclinedWrite ==
    <<"O", "P", "E", "R", "A", "T", "I", "O", "N", " ", "F", "A", "I", "L",
      "E", "D", ":", " ", "U", "s", "e", "r", " ", "d", "e", "c", "l", "i",
      "n", "e", "d", " ", "t", "o", " ", "w", "r", "i", "t", "e", " ", "f",
      "i", "l", "e", ".", " ", "T", "h", "e", " ", "f", "i", "l", "e", " ",
      "w", "a", "s", " ", "N", "O", "T", " ", "c", "r", "e", "a", "t", "e",
      "d", " ", "o", "r", " ", "m", "o", "d", "i", "f", "i", "e", "d", ".">>

SuccessfullyWrote ==
    <<"S", "u", "c", "c", "e", "s", "s", "f", "u", "l", "l", "y", " ", "w",
      "r", "o", "t", "e", " ">>

BytesTo ==
    <<" ", "b", "y", "t", "e", "s", " ", "t", "o", " ">>

FailedToWrite ==
    <<"F", "a", "i", "l", "e", "d", " ", "t", "o", " ", "w", "r", "i", "t",
      "e", " ", "f", "i", "l", "e", ":", " ">>

FailedToRead ==
    <<"F", "a", "i", "l", "e", "d", " ", "t", "o", " ", "r", "e", "a", "d",
      " ", "f", "i", "l", "e", ":", " ">>

ContentsOf ==
    <<"C", "o", "n", "t", "e", "n", "t", "s", " ", "o", "f", " ">>

\* the fence of the format "Contents of %s:\n<fence>\n%s\n<fence>": three
\* backquotes in the source, written here as three quotes
Fence ==
    <<"'", "'", "'">>

FenceOpen == <<":", "\n">> \o Fence \o <<"\n">>

FenceClose == <<"\n">> \o Fence

PermissionDenied ==
    <<"p", "e", "r", "m", "i", "s", "s", "i", "o", "n", " ", "d", "e", "n",
      "i", "e", "d">>

StopCommandFailed ==
    <<"S", "T", "O", "P", ".", " ", "T", "h", "e", " ", "c", "o", "m", "m",
      "a", "n", "d", " ", "f", "a", "i", "l", "e", "d", ".", " ">>

YouMustRun ==
    <<"Y", "o", "u", " ", "M", "U", "S", "T", " ", "r", "u", "n", " ", "t",
      "h", "i", "s", " ", "c", "o", "m", "m", "a", "n", "d", " ", "n", "o",
      "w", ":", " ">>

ReadTheError ==
    <<"R", "e", "a", "d", " ", "t", "h", "e", " ", "e", "r", "r", "o", "r",
      " ", "a", "b", "o", "v", "e", " ", "a", "n", "d", " ", "f", "i", "x",
      " ", "i", "t", " ", "b", "e", "f", "o", "r", "e", " ", "c", "o", "n",
      "t", "i", "n", "u", "i", "n", "g", ".">>

CommandSucceededPrefix ==
    <<"C", "o", "m", "m", "a", "n", "d", " ", "s", "u", "c", "c", "e", "e",
      "d", "e", "d", ":", "\n">>

FilePath ==
    <<"n", "o", "t", "e", "s", ".", "t", "x", "t">>

BuildLog ==
    <<"b", "u", "i", "l", "d", ":", " ", "C", "O", "M", "M", "A", "N", "D",
      " ", "F", "A", "I", "L", "E", "D", " ", "(", "e", "x", "i", "t", " ",
      "2", ")">>

UpperError ==
    <<"E", "R", "R", "O", "R", ":", " ", "x">>

\* the key of a tool name in executeTool's switch
ToolKey(name) ==
    IF name = RunCommandName THEN "run_command"
    ELSE IF name = WriteFileName THEN "write_file"
    ELSE IF name = ReadFileName THEN "read_file"
    ELSE "unknown_tool"

\* the arguments of a write_file call: {"path":<p>,"content":<c>}
WriteArguments(p, c) ==
    <<"{">> \o EncodeString(PathKey) \o <<":">> \o EncodeString(p) \o <<",">>
    \o EncodeString(ContentKey) \o <<":">> \o EncodeString(c) \o <<"}">>

\* the calls a batch is made of
BatchCalls ==
    {[name |-> RunCommandName, arguments |-> RunCommandArguments(GoRun)],
     [name |-> WriteFileName, arguments |-> WriteArguments(FilePath, <<"a">>)],
     [name |-> ReadFileName, arguments |-> ReadFileArguments(FilePath)]}

MaxBatch == 2

Batches ==
    {[i \in 1..Len(b) |-> TextToolCall(i - 1, b[i].name, b[i].arguments)] :
        b \in SeqsUpTo(BatchCalls, MaxBatch) \ {<<>>}}

\* what the executor does: the result of Run, the error of WriteFile, the
\* content and the error of ReadFile
Outcome(run, err, content) == [run |-> run, err |-> err, content |-> content]

\* the substrings of a stderr that make a command a failed one
StderrMarkers ==
    {<<"e", "r", "r", "o", "r">>, <<"E", "r", "r", "o", "r">>,
     <<"f", "a", "i", "l", "e", "d">>, <<"n", "o", "t", " ", "f", "o", "u", "n", "d">>,
     <<"c", "a", "n", "n", "o", "t", " ", "f", "i", "n", "d">>,
     <<"u", "n", "d", "e", "f", "i", "n", "e", "d">>}

\* a clean run, exit 0 with a stderr that holds one of the markers, exit 0
\* with a stderr that holds none of them, exit 1
BatchRuns ==
    {Run(PlainText, <<>>, 0), Run(<<>>, UpperError, 0), Run(<<>>, <<"b", "o", "o", "m">>, 1)}
    \cup {Run(PlainText, <<"x", ":", " ">> \o m, 0) : m \in StderrMarkers}

Outcomes(name) ==
    IF name = RunCommandName THEN {Outcome(r, <<>>, <<>>) : r \in BatchRuns}
    ELSE IF name = WriteFileName
    THEN {Outcome(NoRun, e, <<>>) : e \in {<<>>, PermissionDenied}}
    ELSE {Outcome(NoRun, <<>>, c) : c \in {PlainText, BuildLog}}
         \cup {Outcome(NoRun, PermissionDenied, <<>>)}

\* handleWriteFile from c.exec.WriteFile on
WriteFileReturn(path, content, err) ==
    IF err # <<>> THEN FailedToWrite \o err
    ELSE SuccessfullyWrote \o Itoa(Len(content)) \o BytesTo \o path

\* executeTool's read_file case from c.exec.ReadFile on
ReadFileReturn(path, content, err) ==
    IF err # <<>> THEN FailedToRead \o err
    ELSE ContentsOf \o path \o FenceOpen \o content \o FenceClose

\* executeTool for the call tc, g what the gate did with it and out what the
\* executor does when it is called: the todo file, the string returned and
\* the interrupt recorded
executeToolCase(tc, g, items, interrupts, out) ==
    IF g.gated /\ ~g.approved
    THEN Ran(items, IF tc.Name = RunCommandName THEN DeclinedCommand ELSE DeclinedWrite,
             <<>>)
    ELSE IF tc.Name = RunCommandName
    THEN runCommand(items, StringField(tc.Arguments, CommandKey).value, out.run, interrupts)
    ELSE IF tc.Name = WriteFileName
    THEN Ran(items, WriteFileReturn(StringField(tc.Arguments, PathKey).value,
                                    StringField(tc.Arguments, ContentKey).value, out.err),
             <<>>)
    ELSE Ran(items, ReadFileReturn(StringField(tc.Arguments, PathKey).value, out.content,
                                   out.err), <<>>)

\* the break of the range with the name of the tool looked at
FailFastRunOnly(name, toolResult) ==
    name = RunCommandName /\ Contains(toolResult, CommandFailed)

\* sendMessage, line 1572: strings.Contains(toolResult, "COMMAND FAILED")
FailFast(name, toolResult) == Contains(toolResult, CommandFailed)

\* sendMessage, lines 1585-1591: the interrupt after a failed command
StopInterrupt(items) ==
    StopCommandFailed
    \o (IF Len(GetPending(items)) > 0 THEN YouMustRun \o GetPending(items)[1].Content
        ELSE ReadTheError)

Hello ==
    <<"h", "i">>

\* the answers at the prompt: yes, no, never, and a read that fails
BatchReads ==
    {[line |-> a, err |-> FALSE] : a \in {<<"y">>, <<"n">>, <<"!">>}}
    \cup {[line |-> <<>>, err |-> TRUE]}

\* the permission tables of these sessions
BatchTables ==
    {t \in Tables : DOMAIN t \subseteq {"run_command"} /\ \A k \in DOMAIN t : t[k] = "never"}
    \cup {t \in Tables : DOMAIN t = {"write_file"} /\ t["write_file"] = "never"}

\* the todo file when the batch starts: empty, or a fix and a re-run pending
BatchTodos ==
    {<<>>,
     <<TodoItem(RunPrefix \o GoModTidy, "pending"), TodoItem(ReRunPrefix \o GoRun, "pending")>>}

\* the user's message was sent and the model answered with the batch
BatchInit ==
    /\ result \in {[NoResult EXCEPT !.ToolCalls = b] : b \in Batches}
    /\ userText = Hello
    /\ history = <<Message("user", userText, <<>>, <<>>),
                   Message("assistant", <<>>, result.ToolCalls, <<>>)>>
    /\ systemPrompt = <<>>
    /\ userInterrupts \in BOOLEAN
    /\ requestNum = 1
    /\ reqMessages = <<>>
    /\ smPc = "tools"
    /\ tcPos = 1
    /\ preHistory = <<>>
    /\ callErr = "none"
    /\ retry = FALSE
    /\ rl \in BOOLEAN
    /\ autoExec \in (IF rl THEN {FALSE} ELSE BOOLEAN)
    /\ toolPermissions \in BatchTables
    /\ gateLog = NoGate
    /\ todoItems \in BatchTodos
    /\ rcCommand = <<>>
    /\ rcRun = NoRun
    /\ rcReturn = <<>>
    /\ rcBefore = todoItems
    /\ rcPc = "idle"
    /\ rcRuns = 0
    /\ rcCancelled = FALSE
    /\ rcLog = <<>>
    /\ TodoIdle
    /\ KeysIdle
    /\ ExtractIdle
    /\ ParseIdle
    /\ StreamIdle

\* sendMessage, lines 1564-1596, for the call at tcPos: ran is what
\* executeTool did, h the history after AddToolResult
BatchLoop(tc, ran, h) ==
    /\ history' = IF FailFast(tc.Name, ran.ret) /\ userInterrupts
                  THEN AddUserInterrupt(h, StopInterrupt(ran.items))
                  ELSE h
    /\ IF BatchEnds(FailFast(tc.Name, ran.ret), tcPos, Len(result.ToolCalls))
       THEN smPc' = "continue" /\ tcPos' = tcPos
       ELSE smPc' = "tools" /\ tcPos' = tcPos + 1

BatchStep(tc, g, ran, run) ==
    /\ gateLog' = g
    /\ toolPermissions' = g.after
    /\ todoItems' = ran.items
    /\ rcBefore' = todoItems
    /\ rcReturn' = ran.ret
    /\ rcRun' = run
    /\ rcCommand' = IF tc.Name = RunCommandName
                    THEN StringField(tc.Arguments, CommandKey).value
                    ELSE <<>>
    /\ rcRuns' = IF g.executed THEN rcRuns + 1 ELSE rcRuns
    /\ BatchLoop(tc, ran,
                 AddToolResult(IF ran.interrupt # <<>>
                               THEN AddUserInterrupt(history, ran.interrupt)
                               ELSE history,
                               tc.ID, ran.ret))
    /\ UNCHANGED <<systemPrompt, userInterrupts, requestNum, reqMessages, result,
                   preHistory, userText, callErr, retry, autoExec, rl, rcPc,
                   rcCancelled, rcLog, tfVars, klVars, exVars, ptVars, stVars>>

\* the call at tcPos through the gate and, if the gate lets it, the executor
BatchCall(tc, g, out) ==
    BatchStep(tc, g, executeToolCase(tc, g, todoItems, userInterrupts, out),
              IF g.executed THEN out.run ELSE NoRun)

\* a gated call that confirmTool refuses
BatchDenied ==
    /\ smPc = "tools"
    /\ \E read \in BatchReads :
          /\ executeTool(ToolKey(result.ToolCalls[tcPos].Name), autoExec, rl,
                         toolPermissions, read).gated
          /\ ~executeTool(ToolKey(result.ToolCalls[tcPos].Name), autoExec, rl,
                          toolPermissions, read).approved
          /\ BatchCall(result.ToolCalls[tcPos],
                       executeTool(ToolKey(result.ToolCalls[tcPos].Name), autoExec, rl,
                                   toolPermissions, read),
                       Outcome(NoRun, <<>>, <<>>))

\* a call that reaches the executor
BatchExecuted(name) ==
    /\ smPc = "tools"
    /\ result.ToolCalls[tcPos].Name = name
    /\ \E read \in BatchReads, out \in Outcomes(name) :
          /\ executeTool(ToolKey(name), autoExec, rl, toolPermissions, read).executed
          /\ BatchCall(result.ToolCalls[tcPos],
                       executeTool(ToolKey(name), autoExec, rl, toolPermissions, read),
                       out)

BatchRunCommand ==
    /\ BatchExecuted(RunCommandName)

BatchWriteFile ==
    /\ BatchExecuted(WriteFileName)

BatchReadFile ==
    /\ BatchExecuted(ReadFileName)

BatchNext ==
    \/ BatchDenied
    \/ BatchRunCommand
    \/ BatchWriteFile
    \/ BatchReadFile

SpecBatch == BatchInit /\ [][BatchNext]_vars

\* the step of sendMessage's range that handles the call at tcPos
CallHandled == smPc = "tools" /\ history' # history

\* the words of a refusal that say the operation did not occur
NotDone ==
    <<"N", "O", "T">>

\* C34: when the gate denies a tool call the executor is not invoked for it,
\* a result string stating that the operation did not occur is recorded
\* against its call id, the pending list is unchanged, and the batch goes on
\* with the next call, if there is one.
C34_DenialContinues ==
    [][(CallHandled /\ gateLog'.gated /\ ~gateLog'.approved) =>
          /\ ~gateLog'.executed
          /\ rcRuns' = rcRuns
          /\ history' = AddToolResult(history, result.ToolCalls[tcPos].ID, rcReturn')
          /\ HasPrefixAt(rcReturn', 0, <<"O", "P", "E", "R", "A", "T", "I", "O", "N", " ",
                                        "F", "A", "I", "L", "E", "D">>)
          /\ Contains(rcReturn', NotDone)
          /\ todoItems' = todoItems
          /\ IF tcPos < Len(result.ToolCalls)
             THEN smPc' = "tools" /\ tcPos' = tcPos + 1
             ELSE smPc' = "continue"]_vars

\* a batch of two calls: the gate denied the first, a run_command, and the
\* second went to the executor; entries are pending as before
C34_Witness ==
    /\ smPc = "continue"
    /\ tcPos = 2
    /\ Len(history) = 4
    /\ history[3] = Message("tool", DeclinedCommand, <<>>, result.ToolCalls[1].ID)
    /\ history[4].Role = "tool"
    /\ history[4].ToolCallID = result.ToolCalls[2].ID
    /\ gateLog.executed
    /\ Len(GetPending(todoItems)) > 0

\* the positions of the user-role messages of h
UserPositions(h) == {k \in 1..Len(h) : h[k].Role = "user"}

\* C35: a user-role interrupt message is added to the conversation only when
\* the UserInterrupts option is enabled; with the option disabled every
\* user-role message of the history was submitted through Chat, after a
\* command failure and after a command success with pending entries alike.
C35_InterruptsOptional ==
    /\ [](~userInterrupts =>
            \A k \in UserPositions(history) : k = 1 /\ history[k].Content = userText)
    /\ [][Cardinality(UserPositions(history')) > Cardinality(UserPositions(history))
            => userInterrupts]_vars
    /\ [][(CallHandled /\ ~userInterrupts) =>
            history' = AddToolResult(history, result.ToolCalls[tcPos].ID, rcReturn')]_vars

\* with the option disabled: a run_command succeeded while entries were
\* pending and stayed pending, the next run_command failed, and the history
\* holds the user's message, the assistant's and the two tool messages
C35_Witness ==
    /\ ~userInterrupts
    /\ smPc = "continue"
    /\ tcPos = 2
    /\ Len(history) = 4
    /\ HasPrefixAt(history[3].Content, 0, CommandSucceededPrefix)
    /\ Len(GetPending(rcBefore)) > 0
    /\ HasPrefixAt(history[4].Content, 0, CommandFailed)
    /\ UserPositions(history) = {1}

\* the step in which c.exec.Run returned for the run_command call at tcPos
CommandRan ==
    /\ CallHandled
    /\ gateLog'.executed
    /\ result.ToolCalls[tcPos].Name = RunCommandName

\* whether a stderr holds none of the markers
Unmarked(stderr) == \A m \in StderrMarkers : ~Contains(stderr, m)

ExitZero ==
    <<" ", "(", "e", "x", "i", "t", " ", "0", ")">>

\* C36: a run_command is treated as succeeded only if its exit code is 0 and
\* its stderr holds none of the six markers; a command that exits 0 with a
\* marker in its stderr yields a 'COMMAND FAILED (exit 0)' result, leaves the
\* pending list that the failure builds from an empty one, with no entry
\* completed, and ends the batch whatever calls remain.
C36_StderrDecides ==
    [][CommandRan =>
          /\ HasPrefixAt(rcReturn', 0, CommandSucceededPrefix)
                <=> (rcRun'.ExitCode = 0 /\ Unmarked(rcRun'.Error))
          /\ HasPrefixAt(rcReturn', 0, CommandFailed)
                <=> ~(rcRun'.ExitCode = 0 /\ Unmarked(rcRun'.Error))
          /\ (rcRun'.ExitCode = 0 /\ ~Unmarked(rcRun'.Error)) =>
                /\ HasPrefixAt(rcReturn', 0, CommandFailed \o ExitZero)
                /\ todoItems' = runCommand(<<>>, rcCommand', rcRun', userInterrupts).items
                /\ \A i \in 1..Len(todoItems') : todoItems'[i].Status = "pending"
                /\ smPc' = "continue"
                /\ tcPos' = tcPos]_vars

\* the first of two calls, a run_command, exited 0 with 'undefined' in its
\* stderr while two entries were pending: the batch ended there and the
\* pending list is not the old one
C36_Witness ==
    /\ smPc = "continue"
    /\ tcPos = 1
    /\ Len(result.ToolCalls) = 2
    /\ rcRun.ExitCode = 0
    /\ Contains(rcRun.Error, <<"u", "n", "d", "e", "f", "i", "n", "e", "d">>)
    /\ HasPrefixAt(rcReturn, 0, CommandFailed \o ExitZero)
    /\ Len(rcBefore) = 2
    /\ todoItems # rcBefore
    /\ Len(history) = 3 + (IF userInterrupts THEN 1 ELSE 0)

\* C37: fail-fast is triggered by any tool result that holds the substring
\* 'COMMAND FAILED', whichever tool produced it: the batch ends with the call
\* that returned it, and when that tool is not run_command the pending list
\* is left as it was; a result without the substring lets the batch go on.
C37_SentinelAnyTool ==
    /\ [][(CallHandled /\ Contains(rcReturn', CommandFailed)) =>
             /\ smPc' = "continue"
             /\ tcPos' = tcPos
             /\ result.ToolCalls[tcPos].Name # RunCommandName => todoItems' = todoItems]_vars
    /\ [][(CallHandled /\ ~Contains(rcReturn', CommandFailed)
                       /\ tcPos < Len(result.ToolCalls)) =>
             smPc' = "tools" /\ tcPos' = tcPos + 1]_vars

\* a batch of read_file and run_command: the file read holds the sentinel,
\* the run_command was never started, and the entries are pending as before
C37_Witness ==
    /\ smPc = "continue"
    /\ tcPos = 1
    /\ Len(result.ToolCalls) = 2
    /\ result.ToolCalls[1].Name = ReadFileName
    /\ result.ToolCalls[2].Name = RunCommandName
    /\ rcReturn = ReadFileReturn(FilePath, BuildLog, <<>>)
    /\ rcRun = NoRun
    /\ todoItems = rcBefore
    /\ Len(GetPending(todoItems)) = 2

-----------------------------------------------------------------------------
(* The readLoop goroutines of a Listener, on the behaviours of SpecKeys. *)

\* the readLoop goroutines that were started and have not returned
Alive == {i \in 1..Len(klLoops) : klLoops[i].pc # "done"}

\* C38: at most one readLoop goroutine of a Listener is alive at any time,
\* under every interleaving of Start and Stop, also when Start follows Stop
\* while the previous readLoop is blocked in its read and the 100 ms pass,
\* and when two Start calls run concurrently.
C38_OneReadLoop == Cardinality(Alive) <= 1

\* Start after Stop: the first readLoop sits in os.Stdin.Read, the listener
\* is active again and the second readLoop runs
C38_TwoLoops ==
    /\ klActive
    /\ Len(klLoops) = 2
    /\ klLoops[1].pc = "read"
    /\ klLoops[2].pc \in {"select", "read"}
    /\ \A c \in Callers : klCallers[c].pc = "idle"

-----------------------------------------------------------------------------
(* The items of the todo file, on the behaviours of SpecTodo. *)

\* the positions of the items that are not completed
Open(items) == {i \in 1..Len(items) : items[i].Status # "completed"}

\* C39: starting from an empty todo list, after any sequence of AddTodo,
\* SetInProgress, Complete, PopFirst and Clear, no two items that are not
\* completed have equal content.
C39_NoDuplicateOpen ==
    \A i, j \in Open(todoItems) : todoItems[i].Content = todoItems[j].Content => i = j

\* the part of C39 about AddTodo alone: content that no open item has goes
\* first in GetPending order, content that an open item has changes nothing
C39_AddTodoPlacement ==
    \A content \in TodoContents :
        IF \E i \in Open(todoItems) : todoItems[i].Content = content
        THEN AddTodo(todoItems, content) = todoItems
        ELSE /\ GetPending(AddTodo(todoItems, content))[1] = TodoItem(content, "pending")
             /\ Tail(GetPending(AddTodo(todoItems, content))) = GetPending(todoItems)

\* an entry that was completed, added again and then set in progress: two
\* open items with one content
C39_Revived ==
    /\ Len(todoItems) = 2
    /\ todoItems[1].Content = todoItems[2].Content
    /\ todoItems[1].Status = "pending"
    /\ todoItems[2].Status = "in_progress"
=============================================================================
